---- MODULE Spec2Model ----
(***************************************************************************)
(* Verification model of the VVLIVE backend control plane.                 *)
(*                                                                         *)
(* Part 1: the adaptive quality state machine and the retry wrapper of     *)
(* backend/app/state_machine.py.                                           *)
(*                                                                         *)
(* Units.  Bandwidth is in bits per second and RTT in milliseconds, as in  *)
(* the source.  packet_loss_percent is a float in the source; here it is   *)
(* an integer number of TENTHS of a percent, so the source's thresholds    *)
(* 2.0, 3.0, 5.0, 1.0 and 0.5 read 20, 30, 50, 10 and 5.                   *)
(*                                                                         *)
(* Time.  The source reads the wall clock with time.time() and stores      *)
(* timestamps (entered_at, condition_met_at).  The model measures time in  *)
(* whole seconds on a clock whose origin is re-based to the present each   *)
(* time the clock advances: time.time() is always `now`, and a timestamp   *)
(* taken t seconds ago is stored as now - t.  Every comparison the source  *)
(* makes on an elapsed time is against a constant of at most 60 seconds,   *)
(* so timestamps older than MaxAge seconds are kept at MaxAge.             *)
(***************************************************************************)
EXTENDS Integers, Sequences, FiniteSets, TLC

\* ------------------------------------------------------------------ bounds
\* Oldest age of a timestamp the model tells apart (seconds).
MaxAge == 61
\* Largest retry_attempts setting explored by the wrapper specifications.
MaxAttempts == 2
\* Number of one-second ticks a scenario run is followed for.
MaxTicks == 130

\* --------------------------------------------------------------- constants
\* StateMachineTimers
MIN_STATE_DWELL_TIME == 45
RECOVERY_DWELL_TIME == 60

\* models.QualityState
QualityState == {"HIGH", "MEDIUM", "LOW", "VERY_LOW", "RECOVERY", "ERROR"}

\* Python's None, for the Optional[QualityState] / Optional[str] fields.
None == "None"
\* Optional[float]: << >> is None, <<t>> is the float t.
NoTime == << >>
\* Optional[Tuple[QualityState, str]]: << >> is None, <<target, reason>> a value.
NoRec == << >>

\* time.time(): the present, on the re-based clock.
now == 0

VARIABLES
    context,             \* AdaptiveStateMachine.context : StateContext
    enabled,             \* RetryLogicWrapper.enabled
    retry_attempts,      \* RetryLogicWrapper.retry_attempts
    instant_recovery,    \* RetryLogicWrapper.instant_recovery
    downgrade_counters,  \* RetryLogicWrapper.downgrade_counters
    upgrade_counters,    \* RetryLogicWrapper.upgrade_counters
    call,                \* the last operation invoked and what it produced
    streak,              \* consecutive ticks acting on one target (observer)
    feed,                \* the metrics a scenario run feeds (observer)
    ticks                \* ticks made by a scenario run (observer)

\* The state machine, its wrapper and their observers.
fsm == <<context, enabled, retry_attempts, instant_recovery,
         downgrade_counters, upgrade_counters, call, streak, feed, ticks>>

VARIABLES
    monitor,             \* the IngestMonitor object (its attributes)
    tasks,               \* the asyncio tasks start() has created, in order
    caller,              \* the coroutine calling start() / stop() (main.lifespan)
    poll_log,            \* how the polls begun so far have ended (observer)
    last_aggregated      \* MetricsAggregator.last_aggregated

\* The opt-in services main.lifespan sets up beside the state machine.
services == <<monitor, tasks, caller, poll_log, last_aggregated>>

VARIABLES
    app,                 \* main.app.state and the settings it was built from
    response,            \* the answer to the last HTTP request (observer)
    obs,                 \* the OBSController object and its tasks
    lifespan             \* main.lifespan's position

\* The application around the state machine and its services.
runtime == <<app, response, obs, lifespan>>

vars == <<fsm, services, runtime>>

\* ------------------------------------------------------------------ inputs
\* Metric samples: one value on each side of every threshold of the tables.
Bandwidths == {400000, 3000000, 8000000}
Losses == {2, 40, 100}
MinRtts == {50, 90}
MaxRtts == {150}
Subflows == {0, 2}

Inputs ==
    [total_bandwidth_bps : Bandwidths, packet_loss_percent : Losses,
     min_rtt_ms : MinRtts, max_rtt_ms : MaxRtts, active_subflows : Subflows]

\* -------------------------------------------------------------- formatting
\* f"{x:.1f}" of a loss given in tenths of a percent.
Fmt1(tenths) == ToString(tenths \div 10) \o "." \o ToString(tenths % 10)

\* f"{bps/1e6:.2f}": hundredths of a Mbps, ties to even.
Fmt2(bps) ==
    LET q == bps \div 10000
        r == bps % 10000
        h == IF r > 5000 \/ (r = 5000 /\ q % 2 = 1) THEN q + 1 ELSE q
    IN  ToString(h \div 100) \o "." \o
        (IF h % 100 < 10 THEN "0" ELSE "") \o ToString(h % 100)

\* ------------------------------------------------------------ StateContext
time_in_state(c) == now - c.entered_at

condition_duration(c) ==
    IF c.condition_met_at = NoTime THEN 0 ELSE now - c.condition_met_at[1]

\* set_condition without the name test: the timer restarts at every call.
set_condition_always_restarts(c, name) ==
    [c EXCEPT !.condition_met_at = <<now>>, !.condition_name = name]

set_condition(c, name) ==
    IF c.condition_name # name
    THEN [c EXCEPT !.condition_met_at = <<now>>, !.condition_name = name]
    ELSE c

clear_condition(c) ==
    [c EXCEPT !.condition_met_at = NoTime, !.condition_name = None]

\* transition_to without the branch that forgets previous_state on leaving
\* RECOVERY.
transition_to_keeps_previous(c, new_state) ==
    LET prev == IF new_state = "RECOVERY" THEN c.current_state
                ELSE c.previous_state
    IN  clear_condition([c EXCEPT !.previous_state = prev,
                                  !.current_state = new_state,
                                  !.entered_at = now])

\* transition_to without the branch that records the state RECOVERY is
\* entered from.
transition_to_forgets_previous(c, new_state) ==
    LET prev == IF c.current_state = "RECOVERY" THEN None
                ELSE c.previous_state
    IN  clear_condition([c EXCEPT !.previous_state = prev,
                                  !.current_state = new_state,
                                  !.entered_at = now])

\* transition_to without the final clear_condition().
transition_to_keeps_condition(c, new_state) ==
    LET prev == IF new_state = "RECOVERY" THEN c.current_state
                ELSE IF c.current_state = "RECOVERY" THEN None
                ELSE c.previous_state
    IN  [c EXCEPT !.previous_state = prev, !.current_state = new_state,
                  !.entered_at = now]

transition_to(c, new_state) ==
    LET prev == IF new_state = "RECOVERY" THEN c.current_state
                ELSE IF c.current_state = "RECOVERY" THEN None
                ELSE c.previous_state
    IN  clear_condition([c EXCEPT !.previous_state = prev,
                                  !.current_state = new_state,
                                  !.entered_at = now])

\* AdaptiveStateMachine.__init__
NewContext(initial_state) ==
    [current_state |-> initial_state, previous_state |-> None,
     entered_at |-> now, condition_name |-> None, condition_met_at |-> NoTime]

\* The clock advances by one second: every stored timestamp is one second
\* older on the re-based clock.
Older(t) == IF now - (t - 1) > MaxAge THEN now - MaxAge ELSE t - 1

advance(c) ==
    [c EXCEPT !.entered_at = Older(@),
              !.condition_met_at = IF @ = NoTime THEN NoTime ELSE <<Older(@[1])>>]

\* ---------------------------------------------------- AdaptiveStateMachine
\* The pre-gate compared against DOWNGRADE_OBSERVATION_WINDOW (5) instead of
\* MIN_STATE_DWELL_TIME.
InDwell_wrong_timer(c) == time_in_state(c) < 5

\* The pre-gate of both evaluators.
InDwell(c) == time_in_state(c) < MIN_STATE_DWELL_TIME

\* A rule whose window test is written > instead of >=.
Observe_strict(c, window, target, reason, name) ==
    IF condition_duration(c) > window
    THEN [ret |-> <<target, reason>>, context |-> c]
    ELSE [ret |-> NoRec, context |-> set_condition(c, name)]

\* A rule that makes the transition itself once its window has passed.
Observe_applies(c, window, target, reason, name) ==
    IF condition_duration(c) >= window
    THEN [ret |-> <<target, reason>>, context |-> transition_to(c, target)]
    ELSE [ret |-> NoRec, context |-> set_condition(c, name)]

\* One row of a state's rule list: the trigger holds; return the
\* recommendation once the outstanding condition has lasted `window`,
\* otherwise (re)name the outstanding condition.
Observe(c, window, target, reason, name) ==
    IF condition_duration(c) >= window
    THEN [ret |-> <<target, reason>>, context |-> c]
    ELSE [ret |-> NoRec, context |-> set_condition(c, name)]

\* An else-branch that leaves the outstanding condition alone.
NoMatch_keeps(c) == [ret |-> NoRec, context |-> c]

\* The else-branch of a state's rule list: no trigger holds.
NoMatch(c) == [ret |-> NoRec, context |-> clear_condition(c)]

Nothing(c) == [ret |-> NoRec, context |-> c]

evaluate_downgrade(c, total_bandwidth_bps, packet_loss_percent, max_rtt_ms, active_subflows) ==
    LET current == c.current_state
        loss == "Packet loss " \o Fmt1(packet_loss_percent) \o "% "
        bw == "Bandwidth " \o Fmt2(total_bandwidth_bps) \o " Mbps "
    IN  IF InDwell(c) THEN Nothing(c)
        ELSE IF active_subflows = 0
        THEN [ret |-> <<"ERROR", "Both uplinks failed">>, context |-> c]
        ELSE IF current = "HIGH" THEN
            IF packet_loss_percent > 20
            THEN Observe(c, 5, "MEDIUM", loss \o ">2% for 5s", "high_packet_loss")
            ELSE IF total_bandwidth_bps < 5000000
            THEN Observe(c, 10, "MEDIUM", bw \o "<5 Mbps for 10s", "high_low_bandwidth")
            ELSE NoMatch(c)
        ELSE IF current = "MEDIUM" THEN
            IF packet_loss_percent > 30
            THEN Observe(c, 5, "LOW", loss \o ">3% for 5s", "medium_packet_loss")
            ELSE IF total_bandwidth_bps < 3000000
            THEN Observe(c, 10, "LOW", bw \o "<3 Mbps for 10s", "medium_low_bandwidth")
            ELSE NoMatch(c)
        ELSE IF current = "LOW" THEN
            IF packet_loss_percent > 50
            THEN Observe(c, 5, "VERY_LOW", loss \o ">5% for 5s", "low_packet_loss")
            ELSE IF total_bandwidth_bps < 1500000
            THEN Observe(c, 10, "VERY_LOW", bw \o "<1.5 Mbps for 10s", "low_low_bandwidth")
            ELSE NoMatch(c)
        ELSE IF current = "VERY_LOW" THEN
            IF total_bandwidth_bps < 500000
            THEN Observe(c, 20, "ERROR", bw \o "<0.5 Mbps for 20s", "very_low_critical")
            ELSE NoMatch(c)
        ELSE Nothing(c)

\* An ERROR rule that recommends VERY_LOW once an uplink is back.
ErrorRule_recovers(c, active_subflows) ==
    IF active_subflows > 0 /\ ~InDwell(c)
    THEN [ret |-> <<"VERY_LOW", "Uplink restored">>, context |-> c]
    ELSE Nothing(c)

\* if current == QualityState.ERROR: return None
ErrorRule(c, active_subflows) == Nothing(c)

\* A RECOVERY rule that returns to the tier it came from.
RecoveryTarget_same(prev) == prev

\* The tier RECOVERY promotes to, from the tier it was entered from.
RecoveryTarget(prev) ==
    CASE prev = "VERY_LOW" -> "LOW"
      [] prev = "LOW" -> "MEDIUM"
      [] prev = "MEDIUM" -> "HIGH"

\* Upgrade rules that promote straight to the next tier.
UpgradeTarget_direct(current) ==
    CASE current = "VERY_LOW" -> "LOW"
      [] current = "LOW" -> "MEDIUM"
      [] current = "MEDIUM" -> "HIGH"

\* Upgrade rules that name the tier the machine is in.
UpgradeTarget_same(current) == current

\* The target of the VERY_LOW, LOW and MEDIUM upgrade rules.
UpgradeTarget(current) == "RECOVERY"

evaluate_upgrade(c, total_bandwidth_bps, packet_loss_percent, min_rtt_ms, active_subflows) ==
    LET current == c.current_state
        prev == c.previous_state
        stable == "Network stable for 60s"
    IN  IF current = "ERROR" THEN ErrorRule(c, active_subflows)
        ELSE IF InDwell(c) THEN Nothing(c)
        ELSE IF current = "RECOVERY" THEN
            IF time_in_state(c) >= RECOVERY_DWELL_TIME
            THEN IF prev \in {"VERY_LOW", "LOW", "MEDIUM"}
                 THEN [ret |-> <<RecoveryTarget(prev),
                                 "Recovery complete, upgrading from " \o prev>>,
                       context |-> c]
                 ELSE Nothing(c)
            ELSE Nothing(c)
        ELSE IF current = "VERY_LOW" THEN
            IF total_bandwidth_bps > 2500000 /\ packet_loss_percent < 10 /\ min_rtt_ms < 100
            THEN Observe(c, 60, UpgradeTarget(current), stable, "very_low_upgrade")
            ELSE NoMatch(c)
        ELSE IF current = "LOW" THEN
            IF total_bandwidth_bps > 4500000 /\ packet_loss_percent < 5 /\ min_rtt_ms < 80
            THEN Observe(c, 60, UpgradeTarget(current), stable, "low_upgrade")
            ELSE NoMatch(c)
        ELSE IF current = "MEDIUM" THEN
            IF total_bandwidth_bps > 7000000 /\ packet_loss_percent < 5 /\ min_rtt_ms < 100
            THEN Observe(c, 60, UpgradeTarget(current), stable, "medium_upgrade")
            ELSE NoMatch(c)
        ELSE Nothing(c)

apply_transition(c, target_state, reason) == transition_to(c, target_state)

\* ------------------------------------------------------------------- state
\* What an operation leaves for an observer: its name, the subflow count it
\* was given, the two recommendations of the inner machine, the
\* (target, reason) handed to apply_transition and the value returned.
Call(op, sf, down, up, applied, returned) ==
    [op |-> op, active_subflows |-> sf, downgrade_recommendation |-> down,
     upgrade_recommendation |-> up, applied |-> applied, returned |-> returned]

NoCall == Call("init", 2, NoRec, NoRec, NoRec, NoRec)

NoStreak == [dir |-> None, target |-> None, n |-> 0]

NoFeed == [total_bandwidth_bps |-> 0, packet_loss_percent |-> 0,
           min_rtt_ms |-> 0, max_rtt_ms |-> 0, active_subflows |-> 0]

\* dict.clear()
Empty == [s \in {} |-> 0]

\* Optional[IngestStats] / Optional[asyncio.Task]: << >> is None.
NoStats == << >>
NoTask == 0

\* IngestMonitor.__init__
NewMonitor(feature_ingest_monitoring, ingest_server_type) ==
    [enabled |-> feature_ingest_monitoring, server_type |-> ingest_server_type,
     last_stats |-> NoStats, poll_task |-> NoTask, http_client |-> None,
     poll_failures |-> 0, total_polls |-> 0]

Idle(op, result) == [pc |-> "idle", op |-> op, result |-> result]

NoPolls == [completed |-> 0, aborted |-> 0]

\* Optional[AggregatedMetrics]: << >> is None.
NoMetrics == << >>

\* config.Settings: the opt-in toggles main.lifespan reads.
Settings ==
    [feature_obs_integration : BOOLEAN, feature_ingest_monitoring : BOOLEAN,
     feature_retry_logic : BOOLEAN, feature_dual_metrics : BOOLEAN]

DefaultSettings ==
    [feature_obs_integration |-> FALSE, feature_ingest_monitoring |-> FALSE,
     feature_retry_logic |-> FALSE, feature_dual_metrics |-> FALSE]

\* main.lifespan up to its yield: what app.state holds. The machine is the
\* wrapper or the core machine; an optional component is an object (TRUE) or
\* None (FALSE).
Startup(settings) ==
    [settings |-> settings,
     quality_machine |-> IF settings.feature_retry_logic
                         THEN "RetryLogicWrapper" ELSE "AdaptiveStateMachine",
     obs_controller |-> settings.feature_obs_integration,
     ingest_monitor |-> settings.feature_ingest_monitoring,
     metrics_aggregator |-> settings.feature_dual_metrics]

\* OBSController.__init__; password tells whether settings.obs_password is
\* set. connect_task is the task main.lifespan creates for connect(),
\* reconnect_task the one running _reconnect_loop with its local
\* reconnect_delay; slept lists the delays that loop has slept and failures
\* counts the connects that failed (observers).
NewOBSController(feature_obs_integration, password) ==
    [enabled |-> feature_obs_integration, password |-> password,
     state |-> "disconnected", ws |-> None, heartbeat_task |-> None,
     connect_task |-> None, reconnect_task |-> None, reconnect_delay |-> 0,
     slept |-> << >>, failures |-> 0, last_error |-> None,
     heartbeat |-> None, loops |-> 0]

Answer(endpoint, status, body) ==
    [endpoint |-> endpoint, status |-> status, body |-> body]

NoResponse == Answer(None, 0, [k \in {} |-> None])

\* config.Settings defaults: no optional component, the core machine alone.
NoRuntime ==
    /\ app = Startup(DefaultSettings)
    /\ response = NoResponse
    /\ obs = NewOBSController(FALSE, FALSE)
    /\ lifespan = "serving"

\* config.Settings defaults: feature_ingest_monitoring is off, nothing runs.
NoServices ==
    /\ monitor = NewMonitor(FALSE, "nginx")
    /\ tasks = << >>
    /\ caller = Idle("lifespan", None)
    /\ poll_log = NoPolls
    /\ last_aggregated = NoMetrics

\* main.lifespan: the core machine starts in MEDIUM; config.Settings defaults.
Init ==
    /\ context = NewContext("MEDIUM")
    /\ enabled = FALSE
    /\ retry_attempts = 5
    /\ instant_recovery = TRUE
    /\ downgrade_counters = Empty
    /\ upgrade_counters = Empty
    /\ call = NoCall
    /\ streak = NoStreak
    /\ feed = NoFeed
    /\ ticks = 0
    /\ NoServices
    /\ NoRuntime

\* One second passes.
Advance ==
    /\ context' = advance(context)
    /\ UNCHANGED <<enabled, retry_attempts, instant_recovery, downgrade_counters,
                   upgrade_counters, call, streak, feed, ticks, services, runtime>>

EvaluateDowngrade(i) ==
    \E r \in {evaluate_downgrade(context, i.total_bandwidth_bps, i.packet_loss_percent,
                                 i.max_rtt_ms, i.active_subflows)} :
        /\ context' = r.context
        /\ call' = Call("evaluate_downgrade", i.active_subflows, r.ret, NoRec, NoRec, r.ret)
        /\ UNCHANGED <<enabled, retry_attempts, instant_recovery, downgrade_counters,
                       upgrade_counters, streak, feed, ticks, services, runtime>>

EvaluateUpgrade(i) ==
    \E r \in {evaluate_upgrade(context, i.total_bandwidth_bps, i.packet_loss_percent,
                               i.min_rtt_ms, i.active_subflows)} :
        /\ context' = r.context
        /\ call' = Call("evaluate_upgrade", i.active_subflows, NoRec, r.ret, NoRec, r.ret)
        /\ UNCHANGED <<enabled, retry_attempts, instant_recovery, downgrade_counters,
                       upgrade_counters, streak, feed, ticks, services, runtime>>

\* apply_transition called with any target.
ApplyTransition(target_state) ==
    /\ context' = apply_transition(context, target_state, "manual")
    /\ call' = Call("apply_transition", 2, NoRec, NoRec, <<target_state, "manual">>, NoRec)
    /\ UNCHANGED <<enabled, retry_attempts, instant_recovery, downgrade_counters,
                   upgrade_counters, streak, feed, ticks, services, runtime>>

Next ==
    \/ Advance
    \/ \E i \in Inputs : EvaluateDowngrade(i)
    \/ \E i \in Inputs : EvaluateUpgrade(i)
    \/ \E t \in QualityState : ApplyTransition(t)

\* The core machine used through its whole interface, with any targets.
Spec == Init /\ [][Next]_vars

\* ------------------------------------------------- recommendation-driven use
\* The caller applies the recommendation an evaluate_* call has just returned
\* ("callers must invoke apply_transition when a return value is present").
ApplyRecommendation ==
    /\ call.op \in {"evaluate_downgrade", "evaluate_upgrade"}
    /\ call.returned # NoRec
    /\ context' = apply_transition(context, call.returned[1], call.returned[2])
    /\ call' = Call("apply_transition", call.active_subflows,
                    call.downgrade_recommendation, call.upgrade_recommendation,
                    call.returned, NoRec)
    /\ UNCHANGED <<enabled, retry_attempts, instant_recovery, downgrade_counters,
                   upgrade_counters, streak, feed, ticks, services, runtime>>

NextDriven ==
    \/ Advance
    \/ \E i \in Inputs : EvaluateDowngrade(i)
    \/ \E i \in Inputs : EvaluateUpgrade(i)
    \/ ApplyRecommendation

SpecDriven == Init /\ [][NextDriven]_vars

\* Both uses together: apply_transition with any target, and with the
\* recommendation just returned.
NextAll ==
    \/ Advance
    \/ \E i \in Inputs : EvaluateDowngrade(i)
    \/ \E i \in Inputs : EvaluateUpgrade(i)
    \/ \E t \in QualityState : ApplyTransition(t)
    \/ ApplyRecommendation

SpecAll == Init /\ [][NextAll]_vars

\* -------------------------------------------------------- RetryLogicWrapper
\* if target not in counters: counters[target] = 0; counters[target] += 1
Increment(counters, target) ==
    [s \in DOMAIN counters \cup {target} |->
        (IF s \in DOMAIN counters THEN counters[s] ELSE 0) + (IF s = target THEN 1 ELSE 0)]

\* What a branch of evaluate_with_retry leaves: the context, the two counter
\* maps, the (target, reason) handed to apply_transition and the return value.
Outcome(c, dc, uc, applied, returned) ==
    [context |-> c, downgrade_counters |-> dc, upgrade_counters |-> uc,
     applied |-> applied, returned |-> returned]

Apply(c, dc, uc, rec) ==
    Outcome(apply_transition(c, rec[1], rec[2]), dc, uc, rec, rec)

\* if not self.enabled: apply immediately
retry_disabled(c, dc, uc, downgrade_recommendation, upgrade_recommendation) ==
    IF downgrade_recommendation # NoRec
    THEN Apply(c, dc, uc, downgrade_recommendation)
    ELSE IF upgrade_recommendation # NoRec
    THEN Apply(c, dc, uc, upgrade_recommendation)
    ELSE Outcome(c, dc, uc, NoRec, NoRec)

\* The downgrade branch with the threshold test written > instead of >=.
retry_downgrade_late(c, dc, uc, downgrade_recommendation) ==
    LET target_state == downgrade_recommendation[1]
        counted == Increment(dc, target_state)
        retry_count == counted[target_state]
    IN  IF retry_count > retry_attempts
        THEN Apply(c, Empty, Empty, downgrade_recommendation)
        ELSE Outcome(c, counted, Empty, NoRec, NoRec)

\* The downgrade branch without upgrade_counters.clear().
retry_downgrade_keeps_upgrades(c, dc, uc, downgrade_recommendation) ==
    LET target_state == downgrade_recommendation[1]
        counted == Increment(dc, target_state)
        retry_count == counted[target_state]
    IN  IF retry_count >= retry_attempts
        THEN Apply(c, Empty, uc, downgrade_recommendation)
        ELSE Outcome(c, counted, uc, NoRec, NoRec)

\* The downgrade branch without downgrade_counters.clear() after the
\* transition.
retry_downgrade_keeps_count(c, dc, uc, downgrade_recommendation) ==
    LET target_state == downgrade_recommendation[1]
        counted == Increment(dc, target_state)
        retry_count == counted[target_state]
    IN  IF retry_count >= retry_attempts
        THEN Apply(c, counted, Empty, downgrade_recommendation)
        ELSE Outcome(c, counted, Empty, NoRec, NoRec)

\* if downgrade_recommendation:
retry_downgrade(c, dc, uc, downgrade_recommendation) ==
    LET target_state == downgrade_recommendation[1]
        counted == Increment(dc, target_state)
        retry_count == counted[target_state]
    IN  IF retry_count >= retry_attempts
        THEN Apply(c, Empty, Empty, downgrade_recommendation)
        ELSE Outcome(c, counted, Empty, NoRec, NoRec)

\* The upgrade branch without the instant-recovery bypass.
retry_upgrade_always_counts(c, dc, uc, upgrade_recommendation) ==
    LET target_state == upgrade_recommendation[1]
        counted == Increment(uc, target_state)
        retry_count == counted[target_state]
    IN  IF retry_count >= retry_attempts
        THEN Apply(c, Empty, Empty, upgrade_recommendation)
        ELSE Outcome(c, Empty, counted, NoRec, NoRec)

\* The upgrade branch with the threshold test written > instead of >=.
retry_upgrade_late(c, dc, uc, upgrade_recommendation) ==
    LET target_state == upgrade_recommendation[1]
        counted == Increment(uc, target_state)
        retry_count == counted[target_state]
    IN  IF instant_recovery
        THEN Apply(c, Empty, Empty, upgrade_recommendation)
        ELSE IF retry_count > retry_attempts
        THEN Apply(c, Empty, Empty, upgrade_recommendation)
        ELSE Outcome(c, Empty, counted, NoRec, NoRec)

\* elif upgrade_recommendation:
retry_upgrade(c, dc, uc, upgrade_recommendation) ==
    LET target_state == upgrade_recommendation[1]
        counted == Increment(uc, target_state)
        retry_count == counted[target_state]
    IN  IF instant_recovery
        THEN Apply(c, Empty, Empty, upgrade_recommendation)
        ELSE IF retry_count >= retry_attempts
        THEN Apply(c, Empty, Empty, upgrade_recommendation)
        ELSE Outcome(c, Empty, counted, NoRec, NoRec)

\* else: no recommendations
retry_none(c, dc, uc) == Outcome(c, Empty, Empty, NoRec, NoRec)

\* The branches of the enabled path with the upgrade tested first.
retry_branch_upgrade_first(c, dc, uc, downgrade_recommendation, upgrade_recommendation) ==
    IF ~enabled
    THEN retry_disabled(c, dc, uc, downgrade_recommendation, upgrade_recommendation)
    ELSE IF upgrade_recommendation # NoRec
    THEN retry_upgrade(c, dc, uc, upgrade_recommendation)
    ELSE IF downgrade_recommendation # NoRec
    THEN retry_downgrade(c, dc, uc, downgrade_recommendation)
    ELSE retry_none(c, dc, uc)

\* The branch evaluate_with_retry takes on the two recommendations.
retry_branch(c, dc, uc, downgrade_recommendation, upgrade_recommendation) ==
    IF ~enabled
    THEN retry_disabled(c, dc, uc, downgrade_recommendation, upgrade_recommendation)
    ELSE IF downgrade_recommendation # NoRec
    THEN retry_downgrade(c, dc, uc, downgrade_recommendation)
    ELSE IF upgrade_recommendation # NoRec
    THEN retry_upgrade(c, dc, uc, upgrade_recommendation)
    ELSE retry_none(c, dc, uc)

evaluate_with_retry(c, dc, uc, total_bandwidth_bps, packet_loss_percent, min_rtt_ms, max_rtt_ms, active_subflows) ==
    LET d == evaluate_downgrade(c, total_bandwidth_bps, packet_loss_percent,
                                max_rtt_ms, active_subflows)
        u == evaluate_upgrade(d.context, total_bandwidth_bps, packet_loss_percent,
                              min_rtt_ms, active_subflows)
        o == retry_branch(u.context, dc, uc, d.ret, u.ret)
    IN  [context |-> o.context,
         downgrade_counters |-> o.downgrade_counters,
         upgrade_counters |-> o.upgrade_counters,
         downgrade_recommendation |-> d.ret,
         upgrade_recommendation |-> u.ret,
         applied |-> o.applied, returned |-> o.returned]

\* Observer: the number of consecutive ticks, the present one included, on
\* which the wrapper acted on a recommendation of one direction and target,
\* with no transition applied and no reset_counters call among the earlier
\* ones.
Acted(r) ==
    IF r.downgrade_recommendation # NoRec
    THEN [dir |-> "downgrade", target |-> r.downgrade_recommendation[1]]
    ELSE IF r.upgrade_recommendation # NoRec
    THEN [dir |-> "upgrade", target |-> r.upgrade_recommendation[1]]
    ELSE [dir |-> None, target |-> None]

NextStreak(r) ==
    LET a == Acted(r)
        continues == /\ call.op = "evaluate_with_retry"
                     /\ call.applied = NoRec
                     /\ streak.dir = a.dir
                     /\ streak.target = a.target
    IN  IF a.target = None THEN NoStreak
        ELSE [dir |-> a.dir, target |-> a.target,
              n |-> IF continues THEN streak.n + 1 ELSE 1]

\* One call of evaluate_with_retry with the sample i.
EvaluateWithRetry(i) ==
    \E r \in {evaluate_with_retry(context, downgrade_counters, upgrade_counters,
                                  i.total_bandwidth_bps, i.packet_loss_percent,
                                  i.min_rtt_ms, i.max_rtt_ms, i.active_subflows)} :
        /\ context' = r.context
        /\ downgrade_counters' = r.downgrade_counters
        /\ upgrade_counters' = r.upgrade_counters
        /\ call' = Call("evaluate_with_retry", i.active_subflows,
                        r.downgrade_recommendation, r.upgrade_recommendation,
                        r.applied, r.returned)
        /\ streak' = NextStreak(r)
        /\ UNCHANGED <<enabled, retry_attempts, instant_recovery, feed, ticks, services, runtime>>

\* reset_counters that clears the downgrade counters only.
reset_counters_downgrade_only(dc, uc) ==
    [downgrade_counters |-> Empty, upgrade_counters |-> uc]

\* RetryLogicWrapper.reset_counters: both maps are cleared.
reset_counters(dc, uc) ==
    [downgrade_counters |-> Empty, upgrade_counters |-> Empty]

\* A call of reset_counters on the wrapper.
ResetCounters ==
    /\ enabled
    /\ \E r \in {reset_counters(downgrade_counters, upgrade_counters)} :
        /\ downgrade_counters' = r.downgrade_counters
        /\ upgrade_counters' = r.upgrade_counters
    /\ call' = Call("reset_counters", 2, NoRec, NoRec, NoRec, NoRec)
    /\ streak' = NoStreak
    /\ UNCHANGED <<context, enabled, retry_attempts, instant_recovery, feed, ticks, services, runtime>>

\* A machine that has just been constructed in, or has just entered, a state.
JustEntered ==
    {NewContext(s) : s \in QualityState} \cup
    {transition_to(NewContext(p), "RECOVERY") : p \in {"VERY_LOW", "LOW", "MEDIUM"}}

\* RetryLogicWrapper.__init__ around such a machine, for each setting of
\* feature_retry_logic, state_change_retry_attempts, instant_recovery_enabled.
InitRetry ==
    /\ context \in JustEntered
    /\ enabled \in BOOLEAN
    /\ retry_attempts \in 1..MaxAttempts
    /\ instant_recovery \in BOOLEAN
    /\ downgrade_counters = Empty
    /\ upgrade_counters = Empty
    /\ call = NoCall
    /\ streak = NoStreak
    /\ feed = NoFeed
    /\ ticks = 0
    /\ NoServices
    /\ NoRuntime

NextRetry ==
    \/ Advance
    \/ \E i \in Inputs : EvaluateWithRetry(i)
    \/ ResetCounters

SpecRetry == InitRetry /\ [][NextRetry]_vars

\* ------------------------------------------------------------ scenario runs
\* A machine that entered state s `age` seconds ago, nothing evaluated since.
RECURSIVE Aged(_, _)
Aged(c, age) == IF age = 0 THEN c ELSE Aged(advance(c), age - 1)

AtDwell(s) == Aged(NewContext(s), MIN_STATE_DWELL_TIME)

\* The control loop's step: evaluate_with_retry on the fed sample, then the
\* EVALUATION_INTERVAL of one second passes.
FeedTick ==
    /\ ticks < MaxTicks
    /\ \E r \in {evaluate_with_retry(context, downgrade_counters, upgrade_counters,
                                     feed.total_bandwidth_bps, feed.packet_loss_percent,
                                     feed.min_rtt_ms, feed.max_rtt_ms,
                                     feed.active_subflows)} :
        /\ context' = advance(r.context)
        /\ downgrade_counters' = r.downgrade_counters
        /\ upgrade_counters' = r.upgrade_counters
        /\ call' = Call("evaluate_with_retry", feed.active_subflows,
                        r.downgrade_recommendation, r.upgrade_recommendation,
                        r.applied, r.returned)
        /\ streak' = NextStreak(r)
    /\ ticks' = ticks + 1
    /\ UNCHANGED <<enabled, retry_attempts, instant_recovery, feed, services, runtime>>

\* Recovery ladder: VERY_LOW for 45 s, retry disabled, a steady good feed.
InitLadder ==
    /\ context = AtDwell("VERY_LOW")
    /\ enabled = FALSE
    /\ retry_attempts = 5
    /\ instant_recovery = TRUE
    /\ downgrade_counters = Empty
    /\ upgrade_counters = Empty
    /\ call = NoCall
    /\ streak = NoStreak
    /\ feed \in [total_bandwidth_bps : {3000000}, packet_loss_percent : {2},
                 min_rtt_ms : {50}, max_rtt_ms : {50, 150}, active_subflows : {1, 2}]
    /\ ticks = 0
    /\ NoServices
    /\ NoRuntime

SpecLadder == InitLadder /\ [][FeedTick]_vars

\* Retry debounce: MEDIUM for 45 s, retry_attempts = 5 without instant
\* recovery, a steady MEDIUM -> LOW downgrade feed.
InitDebounce ==
    /\ context = AtDwell("MEDIUM")
    /\ enabled = TRUE
    /\ retry_attempts = 5
    /\ instant_recovery = FALSE
    /\ downgrade_counters = Empty
    /\ upgrade_counters = Empty
    /\ call = NoCall
    /\ streak = NoStreak
    /\ feed \in [total_bandwidth_bps : {4000000}, packet_loss_percent : {40},
                 min_rtt_ms : {50}, max_rtt_ms : {50, 150}, active_subflows : {2}]
    /\ ticks = 0
    /\ NoServices
    /\ NoRuntime

SpecDebounce == InitDebounce /\ [][FeedTick]_vars

\* The branch of evaluate_downgrade a sample takes in state s (if / elif
\* order: loss before bandwidth), None for the clearing else-branch.
Row(s, i) ==
    CASE s = "HIGH" /\ i.packet_loss_percent > 20 -> "loss"
      [] s = "HIGH" /\ i.total_bandwidth_bps < 5000000 -> "bandwidth"
      [] s = "MEDIUM" /\ i.packet_loss_percent > 30 -> "loss"
      [] s = "MEDIUM" /\ i.total_bandwidth_bps < 3000000 -> "bandwidth"
      [] s = "LOW" /\ i.packet_loss_percent > 50 -> "loss"
      [] s = "LOW" /\ i.total_bandwidth_bps < 1500000 -> "bandwidth"
      [] s = "VERY_LOW" /\ i.total_bandwidth_bps < 500000 -> "critical"
      [] OTHER -> None

\* The window and the target the downgrade table states for a row.
C6_RowWindow(row) ==
    CASE row = "loss" -> 5 [] row = "bandwidth" -> 10 [] row = "critical" -> 20

C6_RowTarget(s) ==
    CASE s = "HIGH" -> "MEDIUM" [] s = "MEDIUM" -> "LOW"
      [] s = "LOW" -> "VERY_LOW" [] s = "VERY_LOW" -> "ERROR"

\* evaluate_downgrade alone, once per second, every sample triggering the row
\* the run started with.
WindowTick(i) ==
    /\ ticks < MaxTicks
    /\ i.active_subflows > 0
    /\ Row(context.current_state, i) = Row(context.current_state, feed)
    /\ \E r \in {evaluate_downgrade(context, i.total_bandwidth_bps, i.packet_loss_percent,
                                    i.max_rtt_ms, i.active_subflows)} :
        /\ context' = advance(r.context)
        /\ call' = Call("evaluate_downgrade", i.active_subflows, r.ret, NoRec, NoRec, r.ret)
    /\ ticks' = ticks + 1
    /\ UNCHANGED <<enabled, retry_attempts, instant_recovery, downgrade_counters,
                   upgrade_counters, streak, feed, services, runtime>>

InitWindow ==
    /\ \E s \in {"HIGH", "MEDIUM", "LOW", "VERY_LOW"} :
        /\ context = AtDwell(s)
        /\ feed \in {i \in Inputs : i.active_subflows > 0 /\ Row(s, i) # None}
    /\ enabled = FALSE
    /\ retry_attempts = 5
    /\ instant_recovery = TRUE
    /\ downgrade_counters = Empty
    /\ upgrade_counters = Empty
    /\ call = NoCall
    /\ streak = NoStreak
    /\ ticks = 0
    /\ NoServices
    /\ NoRuntime

SpecWindow == InitWindow /\ [][\E i \in Inputs : WindowTick(i)]_vars

\* ================================================================== claims

\* The recommendation of the zero-subflow rule.
ZeroSubflowRec == <<"ERROR", "Both uplinks failed">>

Evaluators == {"evaluate_downgrade", "evaluate_upgrade"}

\* C1: evaluate_downgrade called with active_subflows = 0 returns
\* (ERROR, reason) in every state and at every time_in_state, the first 45
\* seconds of a state included.
C1_ZeroSubflowIgnoresDwell ==
    (call.op = "evaluate_downgrade" /\ call.active_subflows = 0)
        => call.returned = ZeroSubflowRec

\* C2: no recommendation other than the zero-subflow one is returned while
\* time_in_state < 45, and a transition applied from a recommendation comes
\* at least 45 seconds after the state was entered unless it is the
\* zero-subflow -> ERROR transition.
C2_Returned ==
    (call.op \in Evaluators /\ call.returned # NoRec)
        => \/ time_in_state(context) >= MIN_STATE_DWELL_TIME
           \/ (call.active_subflows = 0 /\ call.returned = ZeroSubflowRec)

C2_Applied ==
    (call.op \in Evaluators /\ call'.op = "apply_transition")
        => \/ time_in_state(context) >= MIN_STATE_DWELL_TIME
           \/ (call.active_subflows = 0 /\ call'.applied = ZeroSubflowRec)

C2_DwellBetweenTransitions == [](C2_Returned) /\ [][C2_Applied]_vars

\* A windowed recommendation (MEDIUM -> LOW) has been returned and applied.
C2_Witness ==
    /\ call.op = "apply_transition"
    /\ call.applied # NoRec
    /\ call.applied # ZeroSubflowRec
    /\ context.current_state = "LOW"

\* C3: previous_state is populated iff current_state = RECOVERY.
C3_PreviousIffRecovery ==
    (context.previous_state # None) <=> (context.current_state = "RECOVERY")

\* RECOVERY was entered from LOW by apply_transition, and evaluate_upgrade,
\* called after the recovery dwell, recommends the promotion to MEDIUM.
C3_Witness ==
    /\ call.op = "evaluate_upgrade"
    /\ call.returned = <<"MEDIUM", "Recovery complete, upgrading from LOW">>
    /\ context.current_state = "RECOVERY"
    /\ context.previous_state = "LOW"

IsTick == call.op = "evaluate_with_retry"

\* C7: with retry enabled a downgrade to T is applied only on a tick where T
\* has been the inner machine's downgrade recommendation on each of the last
\* retry_attempts consecutive ticks.
C7_DowngradeAfterConsecutive ==
    (IsTick /\ enabled /\ call.downgrade_recommendation # NoRec /\ call.applied # NoRec)
        => streak.n >= retry_attempts

\* C8, first half: a transition applied by a tick is the (target, reason) the
\* inner machine recommended on that tick, and is the value returned.
C8_Carries ==
    (IsTick /\ call.applied # NoRec)
        => /\ call.applied \in {call.downgrade_recommendation, call.upgrade_recommendation}
           /\ call.returned = call.applied
           /\ context.current_state = call.applied[1]

C9_Step ==
    (/\ call'.op = "evaluate_with_retry"
     /\ call'.downgrade_recommendation # NoRec
     /\ call'.upgrade_recommendation # NoRec
     /\ \E i \in Inputs : EvaluateWithRetry(i))
    => LET down == call'.downgrade_recommendation
           target == down[1]
           before == IF target \in DOMAIN downgrade_counters
                     THEN downgrade_counters[target] ELSE 0
       IN  /\ call'.applied \in {NoRec, down}
           /\ upgrade_counters' = Empty
           /\ context'.current_state # call'.upgrade_recommendation[1]
           /\ IF ~enabled \/ before + 1 >= retry_attempts
              THEN call'.applied = down /\ context'.current_state = target
              ELSE /\ call'.applied = NoRec
                   /\ context'.current_state = context.current_state
                   /\ downgrade_counters'[target] = before + 1

C9_DowngradePreferred == [][C9_Step]_vars

\* Both recommendations on one tick, retry enabled, the downgrade counted.
C9_Witness ==
    /\ IsTick /\ enabled
    /\ call.downgrade_recommendation # NoRec
    /\ call.upgrade_recommendation # NoRec
    /\ call.applied = NoRec
    /\ context.current_state = "RECOVERY"

\* C10: with retry enabled and instant_recovery, a tick with an upgrade
\* recommendation and no downgrade recommendation applies the upgrade on that
\* tick and leaves both counter maps empty.
C10_InstantRecovery ==
    (/\ IsTick /\ enabled /\ instant_recovery
     /\ call.upgrade_recommendation # NoRec
     /\ call.downgrade_recommendation = NoRec)
    => /\ call.applied = call.upgrade_recommendation
       /\ call.returned = call.upgrade_recommendation
       /\ context.current_state = call.upgrade_recommendation[1]
       /\ downgrade_counters = Empty
       /\ upgrade_counters = Empty

\* Such a tick with retry_attempts = 2: the first recommendation is applied.
C10_Witness ==
    /\ IsTick /\ enabled /\ instant_recovery /\ retry_attempts = 2
    /\ call.upgrade_recommendation # NoRec
    /\ call.downgrade_recommendation = NoRec
    /\ streak.n = 1

\* C4: fed bw = 3 Mb/s, loss = 0.2%, min_rtt = 50 ms once per second from
\* VERY_LOW at its 45th second, the tick enters RECOVERY once the condition
\* has held 60 s (the 61st call) and LOW after 60 s in RECOVERY.
C4_RecoveryLadder ==
    /\ ticks >= 61 => context.current_state \in {"RECOVERY", "LOW"}
    /\ ticks >= 121 => context.current_state = "LOW"

\* C5: fed MEDIUM -> LOW downgrade conditions once per second with
\* retry_attempts = 5, the inner machine recommends LOW from the 6th call on
\* and the transition is applied on the 5th such tick (the 10th call).
C5_RetryDebounce ==
    /\ ticks >= 10 => context.current_state = "LOW"
    /\ (call.applied # NoRec) => (call.applied[1] = "LOW" /\ streak.n = 5)

\* C6: evaluate_downgrade called once per second from the 45th second of a
\* state, every sample triggering one row of the downgrade table, returns
\* none until the row's window (5 s loss, 10 s bandwidth, 20 s VERY_LOW ->
\* ERROR) has passed since the first call and the row's target from the
\* first call at which it has.
C6_ObservationWindow ==
    (call.op = "evaluate_downgrade" /\ ticks >= 1)
    => LET row == Row(context.current_state, feed)
       IN  IF ticks - 1 >= C6_RowWindow(row)
           THEN /\ call.returned # NoRec
                /\ call.returned[1] = C6_RowTarget(context.current_state)
           ELSE call.returned = NoRec

\* MEDIUM with loss > 3% at every call: the 6th call returns LOW.
C6_Witness ==
    /\ call.op = "evaluate_downgrade"
    /\ context.current_state = "MEDIUM"
    /\ Row("MEDIUM", feed) = "loss"
    /\ ticks = 6
    /\ call.returned = <<"LOW", "Packet loss 4.0% >3% for 5s">>

\* C11: in ERROR evaluate_upgrade returns none for every input and every
\* time_in_state, and in a run driven by evaluator recommendations
\* current_state never leaves ERROR.
C11_Returned ==
    (call.op = "evaluate_upgrade" /\ context.current_state = "ERROR")
        => call.returned = NoRec

C11_Stays ==
    context.current_state = "ERROR" => context'.current_state = "ERROR"

C11_ErrorTerminal == [](C11_Returned) /\ [][C11_Stays]_vars

\* evaluate_upgrade called in ERROR, past both dwell times, with both
\* uplinks back.
C11_Witness ==
    /\ call.op = "evaluate_upgrade"
    /\ call.active_subflows = 2
    /\ context.current_state = "ERROR"
    /\ time_in_state(context) >= 60

\* The quality tiers in ascending order; RECOVERY is not a tier.
C12_Tier(s) ==
    CASE s = "ERROR" -> 0 [] s = "VERY_LOW" -> 1 [] s = "LOW" -> 2
      [] s = "MEDIUM" -> 3 [] s = "HIGH" -> 4

\* C12: every evaluate_upgrade recommendation made from VERY_LOW, LOW or
\* MEDIUM has target RECOVERY and evaluate_upgrade in HIGH returns none; in a
\* run driven by evaluator recommendations no transition between two tiers
\* raises the tier.
C12_Returned ==
    (call.op = "evaluate_upgrade" /\ context.current_state \notin {"RECOVERY", "ERROR"})
        => \/ call.returned = NoRec
           \/ (context.current_state # "HIGH" /\ call.returned[1] = "RECOVERY")

C12_Step ==
    (context.current_state # "RECOVERY" /\ context'.current_state # "RECOVERY")
        => C12_Tier(context'.current_state) <= C12_Tier(context.current_state)

C12_UpgradeViaRecovery == [](C12_Returned) /\ [][C12_Step]_vars

\* LOW with the upgrade condition held for 60 s: RECOVERY is recommended.
C12_Witness ==
    /\ call.op = "evaluate_upgrade"
    /\ context.current_state = "LOW"
    /\ call.returned = <<"RECOVERY", "Network stable for 60s">>

\* C13: in RECOVERY evaluate_upgrade returns none while time_in_state < 60
\* and, from 60 on, LOW / MEDIUM / HIGH for previous_state VERY_LOW / LOW /
\* MEDIUM whatever the metrics, and none for any other previous_state.
C13_Step ==
    (/\ call'.op = "evaluate_upgrade"
     /\ context.current_state = "RECOVERY"
     /\ \E i \in Inputs : EvaluateUpgrade(i))
    => LET prev == context.previous_state
       IN  IF time_in_state(context) >= 60 /\ prev \in {"VERY_LOW", "LOW", "MEDIUM"}
           THEN /\ call'.returned # NoRec
                /\ call'.returned[1] = (CASE prev = "VERY_LOW" -> "LOW"
                                          [] prev = "LOW" -> "MEDIUM"
                                          [] prev = "MEDIUM" -> "HIGH")
           ELSE call'.returned = NoRec

C13_RecoveryTimeOnly == [][C13_Step]_vars

\* RECOVERY entered from VERY_LOW, 60 s later: LOW is recommended although
\* no uplink carries traffic.
C13_Witness ==
    /\ call.op = "evaluate_upgrade"
    /\ call.active_subflows = 0
    /\ context.current_state = "RECOVERY"
    /\ context.previous_state = "VERY_LOW"
    /\ call.returned = <<"LOW", "Recovery complete, upgrading from VERY_LOW">>

\* C14: every apply_transition sets entered_at to the current time and
\* leaves no outstanding condition, whatever the target.
C14_Step ==
    ((\E t \in QualityState : ApplyTransition(t)) \/ ApplyRecommendation)
        => /\ context'.entered_at = now
           /\ context'.condition_name = None
           /\ context'.condition_met_at = NoTime

C14_TransitionResets == [][C14_Step]_vars

\* The upgrade condition of MEDIUM had been outstanding for 60 s when the
\* recommended transition to RECOVERY was applied.
C14_Witness ==
    /\ call.op = "apply_transition"
    /\ call.upgrade_recommendation = <<"RECOVERY", "Network stable for 60s">>
    /\ context.current_state = "RECOVERY"
    /\ context.previous_state = "MEDIUM"
    /\ context.condition_name = None
    /\ time_in_state(context) = 0

\* C15: apply_transition(current_state, reason) leaves current_state and
\* previous_state as they were, for every current_state, RECOVERY included.
C15_Step ==
    \A t \in QualityState :
        (t = context.current_state /\ ApplyTransition(t))
            => /\ context'.current_state = context.current_state
               /\ context'.previous_state = context.previous_state

C15_SelfTransitionNoOp == [][C15_Step]_vars

(***************************************************************************)
(* Part 2: the ingest poller of backend/app/ingest_monitor.py.             *)
(*                                                                         *)
(* start() and stop() are called by one coroutine (main.lifespan), one     *)
(* call at a time.  The poll loop is an asyncio task; it gives up control  *)
(* at its two awaits, the HTTP GET inside a poll and the sleep between     *)
(* polls, and Task.cancel() makes the await it is suspended at raise       *)
(* CancelledError, which is not an Exception.  IngestStats.timestamp is    *)
(* left out.                                                               *)
(***************************************************************************)
\* Tasks start() may create in one run.
MaxTasks == 2
\* Polls followed in one run.
MaxPolls == 4

\* settings.ingest_server_type
ServerTypes == {"nginx", "srt", "node-media-server"}

\* The audio bitrate of a node-media-server stream entry (bits/s).
AudioBps == 128000

\* What one GET of the stats endpoint comes to: an HTTP error, a timeout, a
\* body that does not parse, a body whose number does not convert, or a body
\* with or without the stream, its rate (bytes/s for nginx, bits/s
\* otherwise), the RTT and the connected flag.
Responses ==
    [kind : {"http_error", "timeout", "parse_error", "bad_value"},
     found : {FALSE}, value : {0}, rtt : {0}, connected : {FALSE}]
    \cup [kind : {"ok"}, found : BOOLEAN, value : {300000, 1000000, 2000000},
          rtt : {30}, connected : BOOLEAN]

IngestStats(bitrate_kbps, connection_active, rtt_ms) ==
    [bitrate_kbps |-> bitrate_kbps, connection_active |-> connection_active,
     rtt_ms |-> rtt_ms]

\* How a _poll_* coroutine ends: a sample, None, or an exception it let go.
Sample(stats) == [tag |-> "stats", stats |-> stats]
ReturnsNone == [tag |-> "none", stats |-> NoStats]
Raises == [tag |-> "raise", stats |-> NoStats]
Unsupported == [tag |-> "unsupported", stats |-> NoStats]

poll_nginx_rtmp(m, resp) ==
    IF m.http_client = None THEN Raises
    ELSE IF resp.kind \in {"http_error", "timeout", "parse_error"} THEN ReturnsNone
    ELSE IF resp.kind = "bad_value" THEN Raises
    ELSE IF resp.found
    THEN Sample(IngestStats((resp.value * 8) \div 1000, TRUE, NoTime))
    ELSE Sample(IngestStats(0, FALSE, NoTime))

poll_srt(m, resp) ==
    IF m.http_client = None \/ resp.kind # "ok" THEN ReturnsNone
    ELSE Sample(IngestStats(resp.value \div 1000, resp.connected, <<resp.rtt>>))

poll_node_media(m, resp) ==
    IF m.http_client = None \/ resp.kind # "ok" THEN ReturnsNone
    ELSE IF resp.found
    THEN Sample(IngestStats(resp.value \div 1000 + AudioBps \div 1000, TRUE, NoTime))
    ELSE Sample(IngestStats(0, FALSE, NoTime))

\* _poll_stats up to its await: count the poll.
poll_stats_begin(m) == [m EXCEPT !.total_polls = @ + 1]

poll_once(m, resp) ==
    CASE m.server_type = "nginx" -> poll_nginx_rtmp(m, resp)
      [] m.server_type = "srt" -> poll_srt(m, resp)
      [] m.server_type = "node-media-server" -> poll_node_media(m, resp)
      [] OTHER -> Unsupported

\* _poll_stats that drops the cached sample when a poll fails.
poll_stats_end_forgets(m, r) ==
    IF r.tag = "unsupported" THEN m
    ELSE IF r.tag = "stats"
    THEN [m EXCEPT !.last_stats = r.stats, !.poll_failures = 0]
    ELSE [m EXCEPT !.last_stats = NoStats, !.poll_failures = @ + 1]

\* _poll_stats from the await on: cache the sample, or count the failure.
poll_stats_end(m, r) ==
    IF r.tag = "unsupported" THEN m
    ELSE IF r.tag = "stats"
    THEN [m EXCEPT !.last_stats = r.stats, !.poll_failures = 0]
    ELSE [m EXCEPT !.poll_failures = @ + 1]

NewTask == [pc |-> "created", must_cancel |-> FALSE]

Running(ts, t) == t # NoTask /\ ts[t].pc # "done"

Started(m, ts, result) == [monitor |-> m, tasks |-> ts, result |-> result]

\* start() without the test for a running poll task.
start_unguarded(m, ts) ==
    IF ~m.enabled THEN Started(m, ts, "disabled")
    ELSE Started([m EXCEPT !.http_client = "open", !.poll_task = Len(ts) + 1],
                 Append(ts, NewTask), "started")

start(m, ts) ==
    IF ~m.enabled THEN Started(m, ts, "disabled")
    ELSE IF Running(ts, m.poll_task) THEN Started(m, ts, "already_running")
    ELSE Started([m EXCEPT !.http_client = "open", !.poll_task = Len(ts) + 1],
                 Append(ts, NewTask), "started")

\* ------------------------------------------------------- start() and stop()
\* await monitor.start(): no await between the test and create_task.
Start ==
    /\ caller.pc = "idle"
    /\ \E r \in {start(monitor, tasks)} :
        /\ Len(r.tasks) <= MaxTasks
        /\ monitor' = r.monitor
        /\ tasks' = r.tasks
        /\ caller' = Idle("start", r.result)
    /\ UNCHANGED <<poll_log, fsm, last_aggregated, runtime>>

\* stop() up to its first await: cancel the poll task and wait for it, or go
\* on to the client.
StopBegin ==
    /\ caller.pc = "idle"
    /\ IF monitor.poll_task # NoTask
       THEN /\ tasks' = [tasks EXCEPT ![monitor.poll_task].must_cancel =
                                        (@ \/ tasks[monitor.poll_task].pc # "done")]
            /\ caller' = [pc |-> "join", op |-> "stop", result |-> None]
       ELSE /\ tasks' = tasks
            /\ caller' = IF monitor.http_client # None
                         THEN [pc |-> "close", op |-> "stop", result |-> None]
                         ELSE Idle("stop", "stopped")
    /\ UNCHANGED <<monitor, poll_log, fsm, last_aggregated, runtime>>

\* await self.poll_task returns once the task is done.
StopJoin ==
    /\ caller.pc = "join"
    /\ tasks[monitor.poll_task].pc = "done"
    /\ monitor' = [monitor EXCEPT !.poll_task = NoTask]
    /\ caller' = IF monitor.http_client # None
                 THEN [caller EXCEPT !.pc = "close"]
                 ELSE Idle("stop", "stopped")
    /\ UNCHANGED <<tasks, poll_log, fsm, last_aggregated, runtime>>

\* await self.http_client.aclose()
StopClose ==
    /\ caller.pc = "close"
    /\ monitor' = [monitor EXCEPT !.http_client = None]
    /\ caller' = Idle("stop", "stopped")
    /\ UNCHANGED <<tasks, poll_log, fsm, last_aggregated, runtime>>

\* ------------------------------------------------------------ the poll task
\* The loop enters _poll_stats, on its first run or when the sleep is over,
\* and suspends at the GET (an unsupported server type returns at once).
PollBegin(t) ==
    /\ tasks[t].pc \in {"created", "sleep"}
    /\ ~tasks[t].must_cancel
    /\ monitor.total_polls < MaxPolls
    /\ monitor' = poll_stats_begin(monitor)
    /\ tasks' = [tasks EXCEPT ![t].pc =
                    IF monitor.server_type \in ServerTypes THEN "fetch" ELSE "sleep"]
    /\ UNCHANGED <<caller, poll_log, fsm, last_aggregated, runtime>>

\* The GET is over: the rest of _poll_stats, then the loop sleeps.
PollEnd(t, resp) ==
    /\ tasks[t].pc = "fetch"
    /\ ~tasks[t].must_cancel
    /\ monitor' = poll_stats_end(monitor, poll_once(monitor, resp))
    /\ tasks' = [tasks EXCEPT ![t].pc = "sleep"]
    /\ poll_log' = [poll_log EXCEPT !.completed = @ + 1]
    /\ UNCHANGED <<caller, fsm, last_aggregated, runtime>>

\* A cancelled task is resumed: CancelledError is raised at the await it is
\* suspended at, passes every `except Exception` and ends _poll_loop.
TaskCancelled(t) ==
    /\ tasks[t].pc # "done"
    /\ tasks[t].must_cancel
    /\ tasks' = [tasks EXCEPT ![t].pc = "done"]
    /\ poll_log' = IF tasks[t].pc = "fetch"
                   THEN [poll_log EXCEPT !.aborted = @ + 1] ELSE poll_log
    /\ UNCHANGED <<monitor, caller, fsm, last_aggregated, runtime>>

\* IngestMonitor() for each setting of feature_ingest_monitoring and each
\* supported ingest_server_type; the state machine as main.lifespan builds it.
InitIngest ==
    /\ monitor \in {NewMonitor(on, type) : on \in BOOLEAN, type \in ServerTypes}
    /\ tasks = << >>
    /\ caller = Idle("lifespan", None)
    /\ poll_log = NoPolls
    /\ last_aggregated = NoMetrics
    /\ app = Startup([DefaultSettings EXCEPT
                          !.feature_ingest_monitoring = monitor.enabled])
    /\ response = NoResponse
    /\ obs = NewOBSController(FALSE, FALSE)
    /\ lifespan = "serving"
    /\ context = NewContext("MEDIUM")
    /\ enabled = FALSE
    /\ retry_attempts = 5
    /\ instant_recovery = TRUE
    /\ downgrade_counters = Empty
    /\ upgrade_counters = Empty
    /\ call = NoCall
    /\ streak = NoStreak
    /\ feed = NoFeed
    /\ ticks = 0

NextIngest ==
    \/ Start
    \/ StopBegin
    \/ StopJoin
    \/ StopClose
    \/ \E t \in DOMAIN tasks : PollBegin(t)
    \/ \E t \in DOMAIN tasks, resp \in Responses : PollEnd(t, resp)
    \/ \E t \in DOMAIN tasks : TaskCancelled(t)

SpecIngest == InitIngest /\ [][NextIngest]_vars

\* ----------------------------------------------------------- claims C16-C19
\* C16: total_polls and poll_failures never decrease, whatever the polls do.
C16_Step ==
    /\ monitor'.total_polls >= monitor.total_polls
    /\ monitor'.poll_failures >= monitor.poll_failures

C16_CountersMonotonic == [][C16_Step]_vars

\* The answers that make a poll fail.
C17_Failed(resp) == resp.kind \in {"http_error", "timeout", "parse_error", "bad_value"}

\* C17: a poll that fails leaves the cached sample as it was and counts one
\* failure, and the loop goes on to its sleep: a poll task ends only by being
\* cancelled.
C17_Step ==
    \A t \in DOMAIN tasks, resp \in Responses :
        (C17_Failed(resp) /\ PollEnd(t, resp))
            => /\ monitor'.last_stats = monitor.last_stats
               /\ monitor'.poll_failures = monitor.poll_failures + 1
               /\ monitor'.total_polls = monitor.total_polls
               /\ tasks'[t].pc = "sleep"

C17_LoopAlive == \A t \in DOMAIN tasks : tasks[t].pc = "done" => tasks[t].must_cancel

C17_FailedPoll == [](C17_LoopAlive) /\ [][C17_Step]_vars

\* A sample is cached, two polls in a row have failed since, and the next
\* poll is in flight.
C17_Witness ==
    /\ monitor.last_stats # NoStats
    /\ monitor.poll_failures = 2
    /\ monitor.total_polls = 4
    /\ \E t \in DOMAIN tasks : tasks[t].pc = "fetch"

\* C18: at most one poll loop is alive and at most one poll is in flight.
C18_OnePollInFlight ==
    /\ Cardinality({t \in DOMAIN tasks : tasks[t].pc # "done"}) <= 1
    /\ Cardinality({t \in DOMAIN tasks : tasks[t].pc = "fetch"}) <= 1
    /\ monitor.total_polls - poll_log.completed - poll_log.aborted <= 1

\* start() was called while a poll was in flight and returned without
\* creating a task.
C18_Witness ==
    /\ caller = Idle("start", "already_running")
    /\ Len(tasks) = 1
    /\ tasks[1].pc = "fetch"

\* C19: when stop() has returned, every poll that was begun has ended with
\* the sample cached or a failure counted.
C19_StopWaits ==
    (caller = Idle("stop", "stopped"))
        => /\ poll_log.aborted = 0
           /\ poll_log.completed = monitor.total_polls

(***************************************************************************)
(* Part 3: the dual-source aggregator of backend/app/metrics_aggregator.py.*)
(*                                                                         *)
(* Units.  An Optional value is << >> when absent and <<v>> when present.  *)
(* mptcp_bandwidth_mbps is an integer number of THOUSANDTHS of a Mbps      *)
(* (kbps), mptcp_packet_loss an integer number of TENTHS of a percent;     *)
(* bitrates are whole kbps and RTTs whole milliseconds.  The samples are   *)
(* chosen so that 0.8 x the bandwidth is a whole number of kbps.           *)
(***************************************************************************)
\* settings.bitrate_threshold_*
low_threshold_kbps == 500
offline_threshold_kbps == 450
rtt_threshold_ms == 1000

Absent == << >>

\* Python truthiness of an Optional number: neither None nor zero.
Truthy(x) == x # Absent /\ x[1] # 0

\* Python's `a or b`.
Or(a, b) == IF Truthy(a) THEN a ELSE b

\* int(n / d) for d > 0: truncation towards zero.
int(n, d) == IF n >= 0 THEN n \div d ELSE -((-n) \div d)

Min(a, b) == IF a <= b THEN a ELSE b
Max(a, b) == IF a >= b THEN a ELSE b

\* mptcp_bandwidth_mbps * 1000 * 0.8
Efficiency(mbps) == (mbps * 8) \div 10

determine_primary_source(m) ==
    LET has_mptcp == m.mptcp_bandwidth_mbps # Absent
        has_ingest == m.ingest_bitrate_kbps # Absent
    IN  IF has_mptcp /\ has_ingest THEN "both"
        ELSE IF has_mptcp THEN "mptcp"
        ELSE IF has_ingest THEN "ingest"
        ELSE "neither"

\* _has_degraded_metrics without the single-subflow rule.
has_degraded_metrics_no_subflow(m) ==
    LET rtt == Or(m.mptcp_rtt_ms, m.ingest_rtt_ms)
    IN  IF Truthy(m.mptcp_packet_loss) /\ m.mptcp_packet_loss[1] > 20 THEN TRUE
        ELSE Truthy(rtt) /\ rtt[1] > rtt_threshold_ms

has_degraded_metrics(m) ==
    LET rtt == Or(m.mptcp_rtt_ms, m.ingest_rtt_ms)
    IN  IF Truthy(m.mptcp_packet_loss) /\ m.mptcp_packet_loss[1] > 20 THEN TRUE
        ELSE IF Truthy(rtt) /\ rtt[1] > rtt_threshold_ms THEN TRUE
        ELSE m.mptcp_active_subflows = <<1>>

assess_health(m) ==
    LET bitrate_kbps ==
            IF m.ingest_bitrate_kbps = Absent /\ m.mptcp_bandwidth_mbps # Absent
            THEN <<Efficiency(m.mptcp_bandwidth_mbps[1])>>
            ELSE m.ingest_bitrate_kbps
    IN  IF m.ingest_connection_active = <<FALSE>> THEN "offline"
        ELSE IF bitrate_kbps = Absent THEN "unknown"
        ELSE IF bitrate_kbps[1] < offline_threshold_kbps THEN "offline"
        ELSE IF bitrate_kbps[1] < low_threshold_kbps THEN "critical"
        ELSE IF has_degraded_metrics(m) THEN "degraded"
        ELSE "healthy"

BitrateScore(m) ==
    LET bitrate_kbps ==
            IF m.ingest_bitrate_kbps = Absent /\ Truthy(m.mptcp_bandwidth_mbps)
            THEN <<Efficiency(m.mptcp_bandwidth_mbps[1])>>
            ELSE m.ingest_bitrate_kbps
    IN  IF ~Truthy(bitrate_kbps) THEN 0
        ELSE IF bitrate_kbps[1] >= 2500 THEN 40
        ELSE IF bitrate_kbps[1] >= low_threshold_kbps
        THEN int(40 * (bitrate_kbps[1] - low_threshold_kbps), 2000)
        ELSE int(40 * bitrate_kbps[1], low_threshold_kbps)

LossScore(m) ==
    LET loss == m.mptcp_packet_loss
    IN  IF loss = Absent THEN 0
        ELSE IF loss[1] = 0 THEN 30
        ELSE IF loss[1] < 10 THEN 25
        ELSE IF loss[1] < 20 THEN 20
        ELSE IF loss[1] < 50 THEN 10
        ELSE 0

RttScore(m) ==
    LET rtt == Or(m.mptcp_rtt_ms, m.ingest_rtt_ms)
    IN  IF rtt = Absent THEN 0
        ELSE IF rtt[1] < 50 THEN 20
        ELSE IF rtt[1] < 100 THEN 15
        ELSE IF rtt[1] < 200 THEN 10
        ELSE IF rtt[1] < rtt_threshold_ms THEN 5
        ELSE 0

RedundancyScore(m) ==
    LET subflows == m.mptcp_active_subflows
    IN  IF ~Truthy(subflows) THEN 0
        ELSE IF subflows[1] >= 2 THEN 10
        ELSE IF subflows[1] = 1 THEN 5
        ELSE 0

\* The return without its clamp.
Clamp_none(score) == score

\* min(100, max(0, score))
Clamp(score) == Min(100, Max(0, score))

calculate_health_score(m) ==
    Clamp(BitrateScore(m) + LossScore(m) + RttScore(m) + RedundancyScore(m))

\* _detect_divergence that tolerates a ninefold difference.
detect_divergence_loose(m) ==
    IF m.primary_source # "both" THEN FALSE
    ELSE LET mptcp_kbps == IF Truthy(m.mptcp_bandwidth_mbps)
                           THEN m.mptcp_bandwidth_mbps[1] ELSE 0
             ingest_kbps == IF Truthy(m.ingest_bitrate_kbps)
                            THEN m.ingest_bitrate_kbps[1] ELSE 0
         IN  IF mptcp_kbps > 0 /\ ingest_kbps > 0
             THEN 10 * Min(mptcp_kbps, ingest_kbps) < 1 * Max(mptcp_kbps, ingest_kbps)
             ELSE FALSE

detect_divergence(m) ==
    IF m.primary_source # "both" THEN FALSE
    ELSE LET mptcp_kbps == IF Truthy(m.mptcp_bandwidth_mbps)
                           THEN m.mptcp_bandwidth_mbps[1] ELSE 0
             ingest_kbps == IF Truthy(m.ingest_bitrate_kbps)
                            THEN m.ingest_bitrate_kbps[1] ELSE 0
         IN  IF mptcp_kbps > 0 /\ ingest_kbps > 0
             THEN 10 * Min(mptcp_kbps, ingest_kbps) < 7 * Max(mptcp_kbps, ingest_kbps)
             ELSE FALSE

\* AggregatedMetrics(...) with the defaults of the derived fields.
AggregatedMetrics(bandwidth, loss, rtt, subflows) ==
    [mptcp_bandwidth_mbps |-> bandwidth, mptcp_packet_loss |-> loss,
     mptcp_rtt_ms |-> rtt, mptcp_active_subflows |-> subflows,
     ingest_bitrate_kbps |-> Absent, ingest_connection_active |-> Absent,
     ingest_rtt_ms |-> Absent,
     health_status |-> "unknown", health_score |-> 0,
     divergence_detected |-> FALSE, primary_source |-> "neither"]

aggregate(ingest_monitor, mptcp_bandwidth_mbps, mptcp_packet_loss, mptcp_rtt_ms, mptcp_subflows) ==
    LET ingest_stats == IF ingest_monitor.enabled THEN ingest_monitor.last_stats
                        ELSE NoStats
        m0 == AggregatedMetrics(mptcp_bandwidth_mbps, mptcp_packet_loss,
                                mptcp_rtt_ms, mptcp_subflows)
        m1 == IF ingest_stats # NoStats
              THEN [m0 EXCEPT !.ingest_bitrate_kbps = <<ingest_stats.bitrate_kbps>>,
                              !.ingest_connection_active = <<ingest_stats.connection_active>>,
                              !.ingest_rtt_ms = ingest_stats.rtt_ms]
              ELSE m0
        m2 == [m1 EXCEPT !.primary_source = determine_primary_source(m1)]
        m3 == [m2 EXCEPT !.health_status = assess_health(m2)]
        m4 == [m3 EXCEPT !.health_score = calculate_health_score(m3)]
    IN  [m4 EXCEPT !.divergence_detected = detect_divergence(m4)]

\* ------------------------------------------------------------- aggregate()
\* The transport quantities a caller passes: absent, zero, a corrupt
\* negative reading, and values on each side of the bands.
MptcpBandwidths == {Absent, <<0>>, <<-1000>>, <<600>>, <<3750>>, <<5000>>}
MptcpLosses == {Absent, <<0>>, <<5>>, <<60>>}
MptcpRtts == {Absent, <<0>>, <<60>>, <<1500>>}
MptcpSubflows == {Absent, <<0>>, <<1>>, <<2>>}

Transport ==
    [mptcp_bandwidth_mbps : MptcpBandwidths, mptcp_packet_loss : MptcpLosses,
     mptcp_rtt_ms : MptcpRtts, mptcp_subflows : MptcpSubflows]

\* The monitor once start() has run and the first poll has ended.
AfterFirstPoll(type, resp) ==
    LET m == poll_stats_begin(start(NewMonitor(TRUE, type), << >>).monitor)
    IN  poll_stats_end(m, poll_once(m, resp))

Aggregate(a) ==
    /\ last_aggregated' = <<aggregate(monitor, a.mptcp_bandwidth_mbps, a.mptcp_packet_loss,
                                      a.mptcp_rtt_ms, a.mptcp_subflows)>>
    /\ UNCHANGED <<monitor, tasks, caller, poll_log, fsm, runtime>>

\* MetricsAggregator(ingest_monitor) over a monitor that is switched off, or
\* one whose first poll has ended, its loop asleep.
InitAggregate ==
    /\ \/ /\ monitor \in {NewMonitor(FALSE, type) : type \in ServerTypes}
          /\ tasks = << >>
          /\ caller = Idle("start", "disabled")
          /\ poll_log = NoPolls
       \/ /\ monitor \in {AfterFirstPoll(type, resp) : type \in ServerTypes, resp \in Responses}
          /\ tasks = <<[pc |-> "sleep", must_cancel |-> FALSE]>>
          /\ caller = Idle("start", "started")
          /\ poll_log = [completed |-> 1, aborted |-> 0]
    /\ last_aggregated = NoMetrics
    /\ context = NewContext("MEDIUM")
    /\ enabled = FALSE
    /\ retry_attempts = 5
    /\ instant_recovery = TRUE
    /\ downgrade_counters = Empty
    /\ upgrade_counters = Empty
    /\ call = NoCall
    /\ streak = NoStreak
    /\ feed = NoFeed
    /\ ticks = 0
    /\ app = Startup([DefaultSettings EXCEPT
                          !.feature_ingest_monitoring = monitor.enabled,
                          !.feature_dual_metrics = TRUE])
    /\ response = NoResponse
    /\ obs = NewOBSController(FALSE, FALSE)
    /\ lifespan = "serving"

SpecAggregate == InitAggregate /\ [][\E a \in Transport : Aggregate(a)]_vars

\* C20: the health score aggregate returns is an integer from 0 to 100,
\* whichever transport and ingest values are present.
C20_HealthScoreRange ==
    last_aggregated # NoMetrics => last_aggregated[1].health_score \in 0..100

\* A negative bandwidth reading with 6% loss: the bands sum to less than 0.
C20_Witness ==
    /\ last_aggregated # NoMetrics
    /\ last_aggregated[1].mptcp_bandwidth_mbps = <<-1000>>
    /\ last_aggregated[1].ingest_bitrate_kbps = Absent
    /\ last_aggregated[1].mptcp_packet_loss = <<60>>
    /\ last_aggregated[1].mptcp_rtt_ms = <<1500>>
    /\ last_aggregated[1].health_score = 0

\* The effective bitrate: the ingest bitrate if present, otherwise 0.8 x the
\* transport bandwidth in kbps, otherwise absent.
EffectiveBitrate(m) ==
    IF m.ingest_bitrate_kbps # Absent THEN m.ingest_bitrate_kbps
    ELSE IF m.mptcp_bandwidth_mbps # Absent
    THEN <<(m.mptcp_bandwidth_mbps[1] * 8) \div 10>>
    ELSE Absent

\* The RTT of a sample: the transport RTT if present, otherwise the ingest RTT.
PresentRtt(m) == IF m.mptcp_rtt_ms # Absent THEN m.mptcp_rtt_ms ELSE m.ingest_rtt_ms

\* The four bands as tabulated.
C21_BitrateBand(b) ==
    IF b = Absent THEN 0
    ELSE IF b[1] >= 2500 THEN 40
    ELSE IF b[1] >= 500 THEN int(40 * (b[1] - 500), 2000)
    ELSE int(40 * b[1], 500)

C21_LossBand(loss) ==
    IF loss = Absent THEN 0
    ELSE IF loss[1] = 0 THEN 30
    ELSE IF loss[1] < 10 THEN 25
    ELSE IF loss[1] < 20 THEN 20
    ELSE IF loss[1] < 50 THEN 10
    ELSE 0

C21_RttBand(rtt) ==
    IF rtt = Absent THEN 0
    ELSE IF rtt[1] < 50 THEN 20
    ELSE IF rtt[1] < 100 THEN 15
    ELSE IF rtt[1] < 200 THEN 10
    ELSE IF rtt[1] < 1000 THEN 5
    ELSE 0

C21_RedundancyBand(subflows) ==
    IF subflows = Absent THEN 0
    ELSE IF subflows[1] >= 2 THEN 10
    ELSE IF subflows[1] = 1 THEN 5
    ELSE 0

C21_Bands(m) ==
    C21_BitrateBand(EffectiveBitrate(m)) + C21_LossBand(m.mptcp_packet_loss)
    + C21_RttBand(PresentRtt(m)) + C21_RedundancyBand(m.mptcp_active_subflows)

\* C21: health_score is the sum of the four tabulated bands, clamped to
\* [0,100]: every present RTT below 50 ms, 0 ms included, contributes 20
\* points, and 3000 kbps, 0.5% loss, 60 ms, 2 subflows gives 90.
C21_HealthScoreBands ==
    last_aggregated # NoMetrics
        => LET m == last_aggregated[1]
           IN  /\ m.health_score = Min(100, Max(0, C21_Bands(m)))
               /\ (/\ EffectiveBitrate(m) = <<3000>> /\ m.mptcp_packet_loss = <<5>>
                   /\ PresentRtt(m) = <<60>> /\ m.mptcp_active_subflows = <<2>>)
                      => m.health_score = 90

\* C22 as stated: transport bandwidth 5 Mb/s and ingest bitrate 1000 kbps on
\* an active connection give divergence_detected, primary_source BOTH and
\* health_status CRITICAL or DEGRADED, whatever the loss, RTT and subflows.
C22_Case(m) ==
    /\ m.mptcp_bandwidth_mbps = <<5000>>
    /\ m.ingest_bitrate_kbps = <<1000>>
    /\ m.ingest_connection_active = <<TRUE>>

QUALITY_PRESETS ==
    [s \in QualityState |->
        CASE s = "HIGH" -> [resolution |-> "1920x1080", framerate |-> 30,
                            bitrate_kbps |-> 4500, encoder_preset |-> "veryfast"]
          [] s = "MEDIUM" -> [resolution |-> "1280x720", framerate |-> 30,
                              bitrate_kbps |-> 2500, encoder_preset |-> "veryfast"]
          [] s = "LOW" -> [resolution |-> "854x480", framerate |-> 24,
                           bitrate_kbps |-> 1200, encoder_preset |-> "fast"]
          [] s = "VERY_LOW" -> [resolution |-> "640x360", framerate |-> 24,
                                bitrate_kbps |-> 600, encoder_preset |-> "fast"]
          [] s = "RECOVERY" -> [resolution |-> "1280x720", framerate |-> 30,
                                bitrate_kbps |-> 2500, encoder_preset |-> "veryfast"]
          [] OTHER -> [resolution |-> "640x360", framerate |-> 15,
                       bitrate_kbps |-> 300, encoder_preset |-> "ultrafast"]]

\* get_current_state / get_current_preset, on the core machine or passed
\* through by the wrapper.
get_current_state(c) == c.current_state

get_current_preset(c) == QUALITY_PRESETS[c.current_state]

\* An exception no handler catches: the framework answers 500.
InternalServerError == [detail |-> "Internal Server Error"]

\* The answer every optional endpoint gives for a component that is None.
NotEnabled(message) == [enabled |-> FALSE, message |-> message]

\* GET /api/status. machine.context exists on AdaptiveStateMachine only:
\* RetryLogicWrapper defines get_current_state and get_current_preset but
\* neither a context attribute nor __getattr__, so the read raises
\* AttributeError.
get_status(a, c) ==
    IF a.quality_machine = "RetryLogicWrapper"
    THEN Answer("/api/status", 500, InternalServerError)
    ELSE Answer("/api/status", 200,
                [quality_state |-> get_current_state(c),
                 preset |-> [resolution |-> get_current_preset(c).resolution,
                             framerate |-> get_current_preset(c).framerate,
                             bitrate_kbps |-> get_current_preset(c).bitrate_kbps],
                 time_in_state |-> time_in_state(c),
                 features |-> [emergency_mode |-> TRUE, audio_only |-> TRUE,
                               health_score |-> TRUE]])

\* OBSController.get_status (current_scene and host are not modelled).
obs_get_status(o) ==
    [enabled |-> o.enabled, state |-> o.state,
     connected |-> (o.state = "authenticated")]

\* GET /api/obs/status that answers a missing controller without a message.
get_obs_status_bare(a, o) ==
    IF ~a.obs_controller
    THEN Answer("/api/obs/status", 200, [enabled |-> FALSE])
    ELSE Answer("/api/obs/status", 200, obs_get_status(o))

\* GET /api/obs/status
get_obs_status(a, o) ==
    IF ~a.obs_controller
    THEN Answer("/api/obs/status", 200, NotEnabled("OBS integration not enabled"))
    ELSE Answer("/api/obs/status", 200, obs_get_status(o))

\* IngestMonitor.get_health; success_rate_percent in tenths of a percent,
\* rounded as round(x, 1) rounds (stats_url and the timestamp are not
\* modelled).
get_health(m) ==
    [enabled |-> m.enabled, server_type |-> m.server_type,
     total_polls |-> m.total_polls, poll_failures |-> m.poll_failures,
     success_rate_percent |->
        IF m.total_polls > 0
        THEN (2000 * (m.total_polls - m.poll_failures) + m.total_polls)
                \div (2 * m.total_polls)
        ELSE 0,
     last_stats |-> IF m.last_stats # NoStats
                    THEN <<[bitrate_kbps |-> m.last_stats.bitrate_kbps,
                            connection_active |-> m.last_stats.connection_active]>>
                    ELSE << >>]

\* GET /api/ingest/stats
get_ingest_stats(a, m) ==
    IF ~a.ingest_monitor
    THEN Answer("/api/ingest/stats", 200, NotEnabled("Ingest monitoring not enabled"))
    ELSE Answer("/api/ingest/stats", 200, get_health(m))

\* MetricsAggregator.get_summary; enabled is settings.feature_dual_metrics
\* as __init__ read it (the timestamp is not modelled).
get_summary(settings, m) ==
    IF m = NoMetrics
    THEN [enabled |-> settings.feature_dual_metrics, status |-> "no_data",
          health_score |-> 0]
    ELSE [enabled |-> settings.feature_dual_metrics,
          health_status |-> m[1].health_status,
          health_score |-> m[1].health_score,
          primary_source |-> m[1].primary_source,
          divergence_detected |-> m[1].divergence_detected,
          mptcp |-> IF m[1].mptcp_bandwidth_mbps # Absent
                    THEN <<[bandwidth_mbps |-> m[1].mptcp_bandwidth_mbps,
                            packet_loss_percent |-> m[1].mptcp_packet_loss,
                            rtt_ms |-> m[1].mptcp_rtt_ms,
                            active_subflows |-> m[1].mptcp_active_subflows]>>
                    ELSE << >>,
          ingest |-> IF m[1].ingest_bitrate_kbps # Absent
                     THEN <<[bitrate_kbps |-> m[1].ingest_bitrate_kbps,
                             connection_active |-> m[1].ingest_connection_active,
                             rtt_ms |-> m[1].ingest_rtt_ms]>>
                     ELSE << >>]

\* GET /api/metrics/aggregated
get_aggregated_metrics(a, m) ==
    IF ~a.metrics_aggregator
    THEN Answer("/api/metrics/aggregated", 200, NotEnabled("Dual metrics not enabled"))
    ELSE Answer("/api/metrics/aggregated", 200, get_summary(a.settings, m))

\* RetryLogicWrapper.get_retry_status
wrapper_get_retry_status(on, attempts, instant, dc, uc) ==
    [enabled |-> on, retry_attempts |-> attempts, instant_recovery |-> instant,
     downgrade_counters |-> dc, upgrade_counters |-> uc]

\* GET /api/state-machine/retry-status
get_retry_status(a, on, attempts, instant, dc, uc) ==
    IF a.quality_machine = "RetryLogicWrapper"
    THEN Answer("/api/state-machine/retry-status", 200,
                wrapper_get_retry_status(on, attempts, instant, dc, uc))
    ELSE Answer("/api/state-machine/retry-status", 200,
                NotEnabled("Retry logic not enabled"))

\* ---------------------------------------------------------------- requests
GetStatus ==
    /\ response' = get_status(app, context)
    /\ UNCHANGED <<app, obs, lifespan, fsm, services>>

GetObsStatus ==
    /\ response' = get_obs_status(app, obs)
    /\ UNCHANGED <<app, obs, lifespan, fsm, services>>

GetIngestStats ==
    /\ response' = get_ingest_stats(app, monitor)
    /\ UNCHANGED <<app, obs, lifespan, fsm, services>>

GetAggregatedMetrics ==
    /\ response' = get_aggregated_metrics(app, last_aggregated)
    /\ UNCHANGED <<app, obs, lifespan, fsm, services>>

GetRetryStatus ==
    /\ response' = get_retry_status(app, enabled, retry_attempts, instant_recovery,
                                    downgrade_counters, upgrade_counters)
    /\ UNCHANGED <<app, obs, lifespan, fsm, services>>

\* POST /api/state-machine/reset-retry
ResetRetry ==
    /\ IF app.quality_machine = "RetryLogicWrapper"
       THEN /\ \E r \in {reset_counters(downgrade_counters, upgrade_counters)} :
                /\ downgrade_counters' = r.downgrade_counters
                /\ upgrade_counters' = r.upgrade_counters
            /\ response' = Answer("/api/state-machine/reset-retry", 200,
                                  [success |-> TRUE, message |-> "Retry counters reset"])
       ELSE /\ UNCHANGED <<downgrade_counters, upgrade_counters>>
            /\ response' = Answer("/api/state-machine/reset-retry", 200,
                                  [success |-> FALSE, message |-> "Retry logic not enabled"])
    /\ UNCHANGED <<context, enabled, retry_attempts, instant_recovery, call, streak,
                   feed, ticks, app, obs, lifespan, services>>

\* main.lifespan has run for each setting of the four toggles: the machine in
\* MEDIUM, wrapped or not; the monitor started, with its first poll still to
\* come; the OBS controller built, its connect() task created.
InitApi ==
    /\ \E settings \in Settings :
        /\ app = Startup(settings)
        /\ enabled = settings.feature_retry_logic
        /\ \E r \in {start(NewMonitor(settings.feature_ingest_monitoring, "nginx"), << >>)} :
            /\ monitor = r.monitor
            /\ tasks = r.tasks
            /\ caller = Idle("start", r.result)
        /\ obs = [NewOBSController(settings.feature_obs_integration, FALSE)
                    EXCEPT !.connect_task = IF settings.feature_obs_integration
                                            THEN "created" ELSE None]
    /\ context = NewContext("MEDIUM")
    /\ retry_attempts = 5
    /\ instant_recovery = TRUE
    /\ downgrade_counters = Empty
    /\ upgrade_counters = Empty
    /\ call = NoCall
    /\ streak = NoStreak
    /\ feed = NoFeed
    /\ ticks = 0
    /\ poll_log = NoPolls
    /\ last_aggregated = NoMetrics
    /\ response = NoResponse
    /\ lifespan = "serving"

NextApi ==
    \/ Advance
    \/ GetStatus
    \/ GetObsStatus
    \/ GetIngestStats
    \/ GetAggregatedMetrics
    \/ GetRetryStatus
    \/ ResetRetry

SpecApi == InitApi /\ [][NextApi]_vars

\* C24: GET /api/status answers with quality_state, preset and time_in_state
\* of the current machine, whether quality_machine is the core machine or the
\* retry wrapper.
C24_StatusAnswers ==
    response.endpoint = "/api/status" =>
        /\ response.status = 200
        /\ {"quality_state", "preset", "time_in_state"} \subseteq DOMAIN response.body
        /\ response.body.quality_state = context.current_state
        /\ response.body.preset.bitrate_kbps = QUALITY_PRESETS[context.current_state].bitrate_kbps

\* The same with the retry feature off: the core machine answers.
C24_CoreMachineAnswers ==
    (response.endpoint = "/api/status" /\ ~app.settings.feature_retry_logic) =>
        /\ response.status = 200
        /\ {"quality_state", "preset", "time_in_state"} \subseteq DOMAIN response.body

\* C25: reset_counters is one step beside the ticks; the step that makes the
\* call leaves both counter maps empty and the machine's context as it was.
C25_ResetStep == call' # call /\ call'.op = "reset_counters"

C25_ResetLeavesContext ==
    [][C25_ResetStep =>
        /\ downgrade_counters' = Empty
        /\ upgrade_counters' = Empty
        /\ context'.current_state = context.current_state
        /\ context'.previous_state = context.previous_state
        /\ context'.entered_at = context.entered_at
        /\ context'.condition_name = context.condition_name
        /\ context'.condition_met_at = context.condition_met_at]_vars

C25_Witness ==
    /\ call.op = "reset_counters"
    /\ downgrade_counters = Empty
    /\ upgrade_counters = Empty
    /\ context.condition_name # None

\* C26: each optional-subsystem status endpoint answers 200 with an
\* 'enabled' field, and with a 'message' whenever 'enabled' is false, under
\* every combination of the toggles.
C26_StatusEndpoints ==
    {"/api/obs/status", "/api/ingest/stats", "/api/metrics/aggregated",
     "/api/state-machine/retry-status"}

C26_EnabledField ==
    response.endpoint \in C26_StatusEndpoints =>
        /\ response.status = 200
        /\ "enabled" \in DOMAIN response.body
        /\ ~response.body.enabled => "message" \in DOMAIN response.body

C26_Witness ==
    /\ response.endpoint = "/api/obs/status"
    /\ ~response.body.enabled
    /\ "message" \in DOMAIN response.body
    /\ app.settings.feature_dual_metrics
    /\ app.settings.feature_retry_logic

\* ===================================================================
\* Part 5. obs_controller.py: connecting to OBS and reconnecting.
\* ===================================================================

\* The most delays one reconnect loop is followed through.
MaxSleeps == 6

\* _reconnect_loop: the first delay and the cap.
reconnect_delay == 5
max_delay == 60

\* How a connect attempt ends: authenticated, or one of the failures that
\* land in connect's except clause.
ConnectOutcomes == {"ok", "refused", "unexpected_opcode", "authentication_failed"}

\* A task object that exists and has not finished.
Pending(task) == task \notin {None, "done"}

\* OBSController.disconnect
disconnect(o) ==
    [o EXCEPT !.heartbeat_task = None, !.ws = None, !.state = "disconnected"]

\* The reconnect task created whether or not one is already running.
start_reconnect_unguarded(o) ==
    [o EXCEPT !.reconnect_task = "created", !.reconnect_delay = 0,
              !.slept = << >>, !.loops = @ + 1]

\* if not self.reconnect_task or self.reconnect_task.done():
\*     self.reconnect_task = asyncio.create_task(self._reconnect_loop())
\* loops counts the reconnect tasks created and not finished.
start_reconnect(o) ==
    IF Pending(o.reconnect_task) THEN o
    ELSE [o EXCEPT !.reconnect_task = "created", !.reconnect_delay = 0,
                   !.slept = << >>, !.loops = @ + 1]

\* _reconnect_loop returns.
reconnect_done(o) == [o EXCEPT !.reconnect_task = "done", !.loops = @ - 1]

\* What a call of connect() has done when it returns or suspends: the object,
\* and the value returned (<< >> while it is suspended).
Connecting(o, returned) == [obs |-> o, returned |-> returned]

\* connect() up to `await websockets.connect(ws_url)`.
connect_begin(o) ==
    IF ~o.enabled THEN Connecting(o, <<FALSE>>)
    ELSE IF o.state \in {"connected", "authenticated"} THEN Connecting(o, <<TRUE>>)
    ELSE Connecting([o EXCEPT !.state = "connecting"], << >>)

\* connect() from there on. Success: the socket, AUTHENTICATED, the heartbeat
\* task. Failure: the except clause: ERROR, disconnect(), and a reconnect
\* task unless one exists that is not done.
connect_end(o, outcome) ==
    IF outcome = "ok"
    THEN Connecting([o EXCEPT !.ws = "open", !.state = "authenticated",
                              !.heartbeat_task = "running", !.last_error = None,
                              !.heartbeat = None],
                    <<TRUE>>)
    ELSE LET d == disconnect([o EXCEPT !.state = "error"])
             f == [d EXCEPT !.failures = @ + 1, !.last_error = outcome]
         IN  Connecting(start_reconnect(f), <<FALSE>>)

\* The backoff without its cap.
next_delay_uncapped(delay) == delay * 2

\* reconnect_delay = min(reconnect_delay * 2, max_delay)
next_delay(delay) == Min(delay * 2, max_delay)

\* _reconnect_loop at its while test with the delay given: sleep, or end.
reconnect_test(o, delay) ==
    IF o.enabled /\ o.state # "authenticated"
    THEN [o EXCEPT !.reconnect_task = "sleep", !.reconnect_delay = delay,
                   !.slept = Append(@, delay)]
    ELSE reconnect_done([o EXCEPT !.reconnect_delay = delay])

\* _reconnect_loop after `success = await self.connect()`.
reconnect_after(o, success) ==
    IF success THEN reconnect_done(o)
    ELSE reconnect_test(o, next_delay(o.reconnect_delay))

\* ------------------------------------------------- the task lifespan creates
ConnectTaskBegin ==
    /\ obs.connect_task = "created"
    /\ \E r \in {connect_begin(obs)} :
        obs' = [r.obs EXCEPT !.connect_task =
                    IF r.returned = << >> THEN "connect" ELSE "done"]
    /\ UNCHANGED <<app, response, lifespan, fsm, services>>

ConnectTaskEnd(outcome) ==
    /\ obs.connect_task = "connect"
    /\ outcome = "authentication_failed" => obs.password
    /\ obs' = [connect_end(obs, outcome).obs EXCEPT !.connect_task = "done"]
    /\ UNCHANGED <<app, response, lifespan, fsm, services>>

\* ------------------------------------------------------- the reconnect task
\* The task starts: reconnect_delay = 5 and the first while test.
ReconnectBegin ==
    /\ obs.reconnect_task = "created"
    /\ obs' = reconnect_test(obs, reconnect_delay)
    /\ UNCHANGED <<app, response, lifespan, fsm, services>>

\* The sleep is over: the loop calls connect().
ReconnectWake ==
    /\ obs.reconnect_task = "sleep"
    /\ \E r \in {connect_begin(obs)} :
        obs' = IF r.returned = << >>
               THEN [r.obs EXCEPT !.reconnect_task = "connect"]
               ELSE reconnect_after(r.obs, r.returned[1])
    /\ UNCHANGED <<app, response, lifespan, fsm, services>>

\* The connect() the loop awaits returns.
ReconnectConnectEnd(outcome) ==
    /\ obs.reconnect_task = "connect"
    /\ outcome = "authentication_failed" => obs.password
    /\ outcome # "ok" => Len(obs.slept) < MaxSleeps
    /\ \E r \in {connect_end(obs, outcome)} :
        obs' = reconnect_after(r.obs, r.returned[1])
    /\ UNCHANGED <<app, response, lifespan, fsm, services>>

\* ------------------------------------------------------------------ shutdown
\* lifespan after its yield: the OBS controller is disconnected first.
ShutdownObsController ==
    /\ lifespan = "serving"
    /\ obs' = IF app.obs_controller THEN disconnect(obs) ELSE obs
    /\ lifespan' = "ingest_monitor"
    /\ UNCHANGED <<app, response, fsm, services>>

\* lifespan has built OBSController() under feature_obs_integration, with or
\* without a password, and created the task for connect().
InitObs ==
    /\ app = Startup([DefaultSettings EXCEPT !.feature_obs_integration = TRUE])
    /\ \E password \in BOOLEAN :
        obs = [NewOBSController(TRUE, password) EXCEPT !.connect_task = "created"]
    /\ response = NoResponse
    /\ lifespan = "serving"
    /\ context = NewContext("MEDIUM")
    /\ enabled = FALSE
    /\ retry_attempts = 5
    /\ instant_recovery = TRUE
    /\ downgrade_counters = Empty
    /\ upgrade_counters = Empty
    /\ call = NoCall
    /\ streak = NoStreak
    /\ feed = NoFeed
    /\ ticks = 0
    /\ NoServices

NextObs ==
    \/ ConnectTaskBegin
    \/ \E outcome \in ConnectOutcomes : ConnectTaskEnd(outcome)
    \/ ReconnectBegin
    \/ ReconnectWake
    \/ \E outcome \in ConnectOutcomes : ReconnectConnectEnd(outcome)
    \/ ShutdownObsController

SpecObs == InitObs /\ [][NextObs]_vars

\* C27: a failed connect leaves the controller DISCONNECTED with a retry
\* scheduled; the retries are 5, 10, 20 and 40 s apart and 60 s from then on,
\* and the loop ends only with a connect that succeeded.
C27_Delay(k) == IF k <= 4 THEN <<5, 10, 20, 40>>[k] ELSE 60

C27_FailStep == obs'.failures > obs.failures

C27_Schedule ==
    /\ \A k \in DOMAIN obs.slept : obs.slept[k] = C27_Delay(k)
    /\ obs.reconnect_task = "done" => obs.state = "authenticated" \/ lifespan # "serving"

C27_ReconnectBackoff ==
    /\ []C27_Schedule
    /\ [][C27_FailStep =>
            /\ obs'.state = "disconnected"
            /\ Pending(obs'.reconnect_task)
            /\ obs'.reconnect_task = "sleep" =>
                    obs'.slept[Len(obs'.slept)] = C27_Delay(obs'.failures)]_vars

C27_Witness ==
    /\ obs.slept = <<5, 10, 20, 40, 60, 60>>
    /\ obs.failures = 6
    /\ obs.state = "authenticated"
    /\ obs.reconnect_task = "done"

\* ===================================================================
\* Part 6. main.lifespan after its yield: the shutdown sequence.
\* ===================================================================

\* `await app.state.ingest_monitor.stop()` is called.
ShutdownStopBegin ==
    /\ lifespan = "ingest_monitor"
    /\ app.ingest_monitor
    /\ caller.op # "stop"
    /\ StopBegin

\* stop() has returned, or there is no monitor: lifespan goes on to the
\* remaining components (OBS HTTP bridge, SRTLA adapter, RTMP auth monitor),
\* which are not modelled.
ShutdownIngestMonitor ==
    /\ lifespan = "ingest_monitor"
    /\ app.ingest_monitor => caller = Idle("stop", "stopped")
    /\ lifespan' = "integrations"
    /\ UNCHANGED <<app, response, obs, fsm, services>>

\* The application is serving: the monitor, if enabled, was started for one
\* of the server types and polls; the OBS controller, if enabled, has
\* connected.
InitShutdown ==
    /\ \E obs_on \in BOOLEAN, ingest_on \in BOOLEAN, type \in ServerTypes :
        /\ app = Startup([DefaultSettings EXCEPT
                            !.feature_obs_integration = obs_on,
                            !.feature_ingest_monitoring = ingest_on])
        /\ \E r \in {start(NewMonitor(ingest_on, type), << >>)} :
            /\ monitor = r.monitor
            /\ tasks = r.tasks
            /\ caller = Idle("start", r.result)
        /\ obs = IF obs_on
                 THEN [connect_end(connect_begin(NewOBSController(TRUE, FALSE)).obs,
                                   "ok").obs EXCEPT !.connect_task = "done"]
                 ELSE NewOBSController(FALSE, FALSE)
    /\ response = NoResponse
    /\ lifespan = "serving"
    /\ poll_log = NoPolls
    /\ last_aggregated = NoMetrics
    /\ context = NewContext("MEDIUM")
    /\ enabled = FALSE
    /\ retry_attempts = 5
    /\ instant_recovery = TRUE
    /\ downgrade_counters = Empty
    /\ upgrade_counters = Empty
    /\ call = NoCall
    /\ streak = NoStreak
    /\ feed = NoFeed
    /\ ticks = 0

NextShutdown ==
    \/ \E t \in DOMAIN tasks : PollBegin(t)
    \/ \E t \in DOMAIN tasks, resp \in Responses : PollEnd(t, resp)
    \/ \E t \in DOMAIN tasks : TaskCancelled(t)
    \/ ShutdownObsController
    \/ ShutdownStopBegin
    \/ StopJoin
    \/ StopClose
    \/ ShutdownIngestMonitor

SpecShutdown == InitShutdown /\ [][NextShutdown]_vars

\* The poll task has ended.
C28_PollersStopped == \A t \in DOMAIN tasks : tasks[t].pc = "done"

\* The first half: the monitor's HTTP client is closed only once its poller
\* has stopped.
C28_PollerBeforeClient ==
    (app.ingest_monitor /\ monitor.http_client = None) => C28_PollersStopped

\* C28: at shutdown the ingest poller is stopped before its HTTP client is
\* closed, and both before the OBS controller's connection is closed.
C28_ShutdownOrder ==
    /\ C28_PollerBeforeClient
    /\ (app.obs_controller /\ lifespan # "serving") =>
            (C28_PollersStopped /\ monitor.http_client = None)

\* ===================================================================
\* Part 7. The evaluators called on samples, once per second.
\* ===================================================================

\* Whether a sample satisfies the upgrade conjunction tested in state s
\* (loss in tenths of a percent).
Conjunction(s, i) ==
    CASE s = "VERY_LOW" -> /\ i.total_bandwidth_bps > 2500000
                           /\ i.packet_loss_percent < 10
                           /\ i.min_rtt_ms < 100
      [] s = "LOW" -> /\ i.total_bandwidth_bps > 4500000
                      /\ i.packet_loss_percent < 5
                      /\ i.min_rtt_ms < 80
      [] s = "MEDIUM" -> /\ i.total_bandwidth_bps > 7000000
                         /\ i.packet_loss_percent < 5
                         /\ i.min_rtt_ms < 100
      [] OTHER -> FALSE

\* The samples of a sampled run: an uplink is up, min RTT 50 ms.
Samples == {i \in Inputs : i.active_subflows > 0 /\ i.min_rtt_ms = 50}

\* The run of consecutive evaluations, the latest included, whose samples
\* satisfied the conjunction of the current state (observer).
NextRun(i) ==
    [dir |-> "upgrade", target |-> UpgradeTarget(context.current_state),
     n |-> IF Conjunction(context.current_state, i)
           THEN Min(streak.n + 1, MaxAge) ELSE 0]

\* One call of evaluate_downgrade on a sample, then a second passes. Nothing
\* applies the recommendations; the run ends with the first one returned.
SampledDowngrade(i) ==
    /\ call.returned = NoRec
    /\ \E r \in {evaluate_downgrade(context, i.total_bandwidth_bps, i.packet_loss_percent,
                                    i.max_rtt_ms, i.active_subflows)} :
        /\ context' = advance(r.context)
        /\ call' = Call("evaluate_downgrade", i.active_subflows, r.ret, NoRec, NoRec, r.ret)
    /\ feed' = i
    /\ streak' = NextRun(i)
    /\ UNCHANGED <<enabled, retry_attempts, instant_recovery, downgrade_counters,
                   upgrade_counters, ticks, services, runtime>>

\* One call of evaluate_upgrade on a sample, then a second passes.
SampledUpgrade(i) ==
    /\ call.returned = NoRec
    /\ \E r \in {evaluate_upgrade(context, i.total_bandwidth_bps, i.packet_loss_percent,
                                  i.min_rtt_ms, i.active_subflows)} :
        /\ context' = advance(r.context)
        /\ call' = Call("evaluate_upgrade", i.active_subflows, NoRec, r.ret, NoRec, r.ret)
    /\ feed' = i
    /\ streak' = NextRun(i)
    /\ UNCHANGED <<enabled, retry_attempts, instant_recovery, downgrade_counters,
                   upgrade_counters, ticks, services, runtime>>

\* A machine that has been in one of the four tiers for the dwell time.
InitSampled ==
    /\ \E s \in {"HIGH", "MEDIUM", "LOW", "VERY_LOW"} : context = AtDwell(s)
    /\ enabled = FALSE
    /\ retry_attempts = 5
    /\ instant_recovery = TRUE
    /\ downgrade_counters = Empty
    /\ upgrade_counters = Empty
    /\ call = NoCall
    /\ streak = NoStreak
    /\ feed = NoFeed
    /\ ticks = 0
    /\ NoServices
    /\ NoRuntime

NextSampled ==
    \/ \E i \in Samples : SampledDowngrade(i)
    \/ \E i \in Samples : SampledUpgrade(i)

SpecSampled == InitSampled /\ [][NextSampled]_vars

\* The condition names the downgrade rules record.
C29_ConditionName(s, row) ==
    CASE s = "HIGH" /\ row = "loss" -> "high_packet_loss"
      [] s = "HIGH" /\ row = "bandwidth" -> "high_low_bandwidth"
      [] s = "MEDIUM" /\ row = "loss" -> "medium_packet_loss"
      [] s = "MEDIUM" /\ row = "bandwidth" -> "medium_low_bandwidth"
      [] s = "LOW" /\ row = "loss" -> "low_packet_loss"
      [] s = "LOW" /\ row = "bandwidth" -> "low_low_bandwidth"
      [] s = "VERY_LOW" /\ row = "critical" -> "very_low_critical"
      [] OTHER -> None

\* A call of evaluate_downgrade whose sample fires a trigger other than the
\* one that set the outstanding condition.
C29_OtherTrigger ==
    /\ call'.op = "evaluate_downgrade"
    /\ Row(context.current_state, feed') # None
    /\ context.condition_name \in
            {C29_ConditionName(context.current_state, row) :
                row \in {"loss", "bandwidth", "critical"}} \ {None}
    /\ context.condition_name # C29_ConditionName(context.current_state,
                                                  Row(context.current_state, feed'))

\* C29: when a downgrade trigger other than the one that set the
\* outstanding condition starts to hold, nothing is returned, the condition
\* takes the new trigger's name and its timer restarts.
C29_TriggerRestartsTimer ==
    [][C29_OtherTrigger =>
        /\ call'.returned = NoRec
        /\ context'.condition_name =
                C29_ConditionName(context.current_state, Row(context.current_state, feed'))
        /\ context'.condition_met_at = <<now - 1>>]_vars

\* The same for a trigger that fires before the outstanding condition is as
\* old as the new trigger's window.
C29_RestartsWhenYoung ==
    [][(C29_OtherTrigger /\ condition_duration(context) <
            C6_RowWindow(Row(context.current_state, feed'))) =>
        /\ call'.returned = NoRec
        /\ context'.condition_name =
                C29_ConditionName(context.current_state, Row(context.current_state, feed'))
        /\ context'.condition_met_at = <<now - 1>>]_vars

\* The conjunction the upgrade table states for a tier (loss in tenths of a
\* percent).
C30_Holds(s, i) ==
    CASE s = "VERY_LOW" -> i.total_bandwidth_bps > 2500000 /\ i.packet_loss_percent < 10
                           /\ i.min_rtt_ms < 100
      [] s = "LOW" -> i.total_bandwidth_bps > 4500000 /\ i.packet_loss_percent < 5
                      /\ i.min_rtt_ms < 80
      [] s = "MEDIUM" -> i.total_bandwidth_bps > 7000000 /\ i.packet_loss_percent < 5
                         /\ i.min_rtt_ms < 100

C30_Tiers == {"VERY_LOW", "LOW", "MEDIUM"}

\* RECOVERY is returned only at the end of 60 s of evaluations that all
\* satisfied the conjunction.
C30_Returned ==
    (call.op = "evaluate_upgrade" /\ call.returned # NoRec
        /\ context.current_state \in C30_Tiers)
    => /\ call.returned[1] = "RECOVERY"
       /\ C30_Holds(context.current_state, feed)
       /\ streak.n >= 61

\* An evaluation that fails the conjunction clears the condition; one that
\* satisfies it with no condition outstanding starts the window.
C30_Step ==
    (call'.op = "evaluate_upgrade" /\ context.current_state \in C30_Tiers) =>
        /\ ~C30_Holds(context.current_state, feed') =>
                /\ call'.returned = NoRec
                /\ context'.condition_name = None
                /\ context'.condition_met_at = NoTime
        /\ (C30_Holds(context.current_state, feed') /\ context.condition_name = None) =>
                /\ call'.returned = NoRec
                /\ context'.condition_met_at = <<now - 1>>

C31_Frame(c, after) ==
    /\ after.current_state = c.current_state
    /\ after.previous_state = c.previous_state
    /\ after.entered_at = c.entered_at

\* C31: evaluate_downgrade and evaluate_upgrade, on any sample and whatever
\* they return, leave current_state, previous_state and entered_at as they
\* were.
C31_EvaluatorsFrame ==
    \A i \in Inputs :
        /\ C31_Frame(context,
                     evaluate_downgrade(context, i.total_bandwidth_bps,
                                        i.packet_loss_percent, i.max_rtt_ms,
                                        i.active_subflows).context)
        /\ C31_Frame(context,
                     evaluate_upgrade(context, i.total_bandwidth_bps,
                                      i.packet_loss_percent, i.min_rtt_ms,
                                      i.active_subflows).context)

\* An evaluator has returned a recommendation from a windowed rule and the
\* machine is where it was.
C31_Witness ==
    /\ call.op = "evaluate_downgrade"
    /\ call.returned # NoRec
    /\ call.returned[1] = "LOW"
    /\ context.current_state = "MEDIUM"
    /\ context.condition_name = "medium_packet_loss"

\* C32: with retry enabled, a tick with a downgrade recommendation leaves
\* the upgrade counters empty, a tick with an upgrade recommendation only
\* leaves the downgrade counters empty, and a tick with neither leaves both
\* maps empty.
C32_CountersCleared ==
    (enabled /\ call.op = "evaluate_with_retry") =>
        /\ call.downgrade_recommendation # NoRec => upgrade_counters = Empty
        /\ (call.downgrade_recommendation = NoRec /\ call.upgrade_recommendation # NoRec)
                => downgrade_counters = Empty
        /\ (call.downgrade_recommendation = NoRec /\ call.upgrade_recommendation = NoRec)
                => (downgrade_counters = Empty /\ upgrade_counters = Empty)

\* A downgrade is being counted and nothing is left of the upgrade count.
C32_Witness ==
    /\ enabled
    /\ call.op = "evaluate_with_retry"
    /\ call.downgrade_recommendation # NoRec
    /\ call.upgrade_recommendation # NoRec
    /\ call.returned = NoRec
    /\ downgrade_counters # Empty
    /\ upgrade_counters = Empty

\* ------------------------------------------------------------------- C33
C33_Names ==
    {"high_packet_loss", "high_low_bandwidth", "medium_packet_loss",
     "medium_low_bandwidth", "low_packet_loss", "low_low_bandwidth",
     "very_low_critical", "very_low_upgrade", "low_upgrade", "medium_upgrade"}

\* set_condition applied to the present context, for every name.
C33_SetCondition ==
    \A name \in C33_Names :
        LET after == set_condition(context, name)
        IN  /\ after.condition_name = name
            /\ context.condition_name = name =>
                    after.condition_met_at = context.condition_met_at
            /\ context.condition_name # name =>
                    after.condition_met_at = <<now>>
            /\ context.condition_met_at # NoTime =>
                    after.condition_met_at[1] >= context.condition_met_at[1]

\* Across a step a timer that stays set does not move to an earlier instant:
\* when a second passes it ages by that second, otherwise its age does not
\* grow.
C33_Forward ==
    (context.condition_met_at # NoTime /\ context'.condition_met_at # NoTime) =>
        IF context' = advance(context)
        THEN context'.condition_met_at[1] = Older(context.condition_met_at[1])
        ELSE context'.condition_met_at[1] >= context.condition_met_at[1]

\* C33: set_condition(name) with the outstanding name leaves the first-seen
\* time as it is; the time is set to the current time only when the name
\* differs or nothing is outstanding; it never moves backwards.
C33_TimerKeepsRunning == []C33_SetCondition /\ [][C33_Forward]_vars

\* An evaluation named the condition that was already outstanding for three
\* seconds, and the three seconds are still on the timer.
C33_Witness ==
    /\ call.op = "evaluate_downgrade"
    /\ call.returned = NoRec
    /\ context.condition_name = "medium_low_bandwidth"
    /\ condition_duration(context) = 3

\* ------------------------------------------------------------------- C36
C36_BothFailed == <<"ERROR", "Both uplinks failed">>

C36_Down(i) ==
    evaluate_downgrade(context, i.total_bandwidth_bps, i.packet_loss_percent,
                       i.max_rtt_ms, i.active_subflows).ret

C36_Up(i) ==
    evaluate_upgrade(context, i.total_bandwidth_bps, i.packet_loss_percent,
                     i.min_rtt_ms, i.active_subflows).ret

\* A step that applies the recommendation just returned.
C36_Applies ==
    /\ call.op \in {"evaluate_downgrade", "evaluate_upgrade"}
    /\ call.returned # NoRec
    /\ call'.op = "apply_transition"

C36_Targets ==
    \A i \in Inputs :
        /\ C36_Down(i) # NoRec => C36_Down(i)[1] # context.current_state
        /\ C36_Up(i) # NoRec => C36_Up(i)[1] # context.current_state

C36_AppliedChanges ==
    C36_Applies => context'.current_state # context.current_state

\* C36: no recommendation of evaluate_downgrade or evaluate_upgrade targets
\* the state the machine is in, so every transition applied from a
\* recommendation changes current_state.
C36_NoSelfTarget == []C36_Targets /\ [][C36_AppliedChanges]_vars

C36_TargetsButError ==
    \A i \in Inputs :
        /\ (C36_Down(i) # NoRec /\ C36_Down(i)[1] = context.current_state) =>
                /\ context.current_state = "ERROR"
                /\ i.active_subflows = 0
                /\ C36_Down(i) = C36_BothFailed
        /\ C36_Up(i) # NoRec => C36_Up(i)[1] # context.current_state

C36_AppliedChangesButError ==
    (C36_Applies /\ context'.current_state = context.current_state) =>
        /\ context.current_state = "ERROR"
        /\ call.op = "evaluate_downgrade"
        /\ call.returned = C36_BothFailed
        /\ context'.entered_at = now

\* C36 as amended: the only recommendation that targets the state the machine
\* is in is evaluate_downgrade's (ERROR, "Both uplinks failed") while the
\* machine is in ERROR; every other applied recommendation changes
\* current_state, and that one restarts the time in state.
C36_SelfTargetOnlyInError == []C36_TargetsButError /\ [][C36_AppliedChangesButError]_vars

\* The zero-subflow recommendation returned to a machine that is in ERROR.
C36_Witness ==
    /\ call.op = "evaluate_downgrade"
    /\ call.returned = C36_BothFailed
    /\ context.current_state = "ERROR"

\* ------------------------------------------------------------------- C38
C38_InRange(counters) ==
    \A s \in DOMAIN counters : counters[s] \in 1..(retry_attempts - 1)

\* C38: with retry enabled and retry_attempts >= 1, every stored retry
\* counter is between 1 and retry_attempts - 1 after every call of
\* evaluate_with_retry: a counter that reaches retry_attempts is removed in
\* the tick that applies its transition.
C38_CounterRange ==
    (enabled /\ retry_attempts >= 1) =>
        /\ C38_InRange(downgrade_counters)
        /\ C38_InRange(upgrade_counters)

\* The second consecutive downgrade recommendation with retry_attempts = 2:
\* the transition is applied and no counter is left.
C38_Witness ==
    /\ enabled
    /\ retry_attempts = 2
    /\ call.op = "evaluate_with_retry"
    /\ call.downgrade_recommendation # NoRec
    /\ call.returned = call.downgrade_recommendation
    /\ streak.n = 2
    /\ downgrade_counters = Empty

\* ------------------------------------------------------------------- C39
\* What the disabled path does with the recommendations the two evaluators
\* return on the sample i in the present state.
C39_Disabled(i) ==
    LET d == evaluate_downgrade(context, i.total_bandwidth_bps, i.packet_loss_percent,
                                i.max_rtt_ms, i.active_subflows)
        u == evaluate_upgrade(d.context, i.total_bandwidth_bps, i.packet_loss_percent,
                              i.min_rtt_ms, i.active_subflows)
    IN  retry_disabled(u.context, downgrade_counters, upgrade_counters, d.ret, u.ret)

C39_Wrapper(i) ==
    evaluate_with_retry(context, downgrade_counters, upgrade_counters,
                        i.total_bandwidth_bps, i.packet_loss_percent,
                        i.min_rtt_ms, i.max_rtt_ms, i.active_subflows)

\* C39: with retry enabled and retry_attempts = 1, evaluate_with_retry takes
\* the machine to the same state and returns the same value as the disabled
\* path would on the same call, at every point of every history and for
\* either value of instant_recovery; no counter is carried from one call to
\* the next, so the two runs stay in step.
C39_SameAsDisabled ==
    (enabled /\ retry_attempts = 1) =>
        /\ downgrade_counters = Empty
        /\ upgrade_counters = Empty
        /\ \A i \in Inputs :
            /\ C39_Wrapper(i).context = C39_Disabled(i).context
            /\ C39_Wrapper(i).returned = C39_Disabled(i).returned
            /\ C39_Wrapper(i).applied = C39_Disabled(i).applied

\* An upgrade applied on its first recommendation without instant recovery.
C39_Witness ==
    /\ enabled
    /\ retry_attempts = 1
    /\ ~instant_recovery
    /\ call.op = "evaluate_with_retry"
    /\ call.downgrade_recommendation = NoRec
    /\ call.upgrade_recommendation # NoRec
    /\ call.returned = call.upgrade_recommendation

\* ===========================================================================
\* Part 9. The evaluators driven with a clock that counts the seconds since
\* the present state was entered (ticks), beyond the age at which the
\* re-based timestamps saturate.
\* ===========================================================================

\* One second passes.
DwellSecond ==
    /\ context' = advance(context)
    /\ ticks' = IF ticks < MaxTicks THEN ticks + 1 ELSE ticks
    /\ UNCHANGED <<enabled, retry_attempts, instant_recovery, downgrade_counters,
                   upgrade_counters, call, streak, feed, services, runtime>>

\* Observer: the downgrade row that a returned recommendation came from.
DwellRow(s, i, ret) ==
    IF ret = NoRec THEN NoStreak ELSE [dir |-> Row(s, i), target |-> ret[1], n |-> 0]

DwellDowngrade(i) ==
    /\ \E r \in {evaluate_downgrade(context, i.total_bandwidth_bps, i.packet_loss_percent,
                                    i.max_rtt_ms, i.active_subflows)} :
        /\ context' = r.context
        /\ call' = Call("evaluate_downgrade", i.active_subflows, r.ret, NoRec, NoRec, r.ret)
        /\ streak' = DwellRow(context.current_state, i, r.ret)
    /\ UNCHANGED <<enabled, retry_attempts, instant_recovery, downgrade_counters,
                   upgrade_counters, feed, ticks, services, runtime>>

DwellUpgrade(i) ==
    /\ \E r \in {evaluate_upgrade(context, i.total_bandwidth_bps, i.packet_loss_percent,
                                  i.min_rtt_ms, i.active_subflows)} :
        /\ context' = r.context
        /\ call' = Call("evaluate_upgrade", i.active_subflows, NoRec, r.ret, NoRec, r.ret)
    /\ streak' = NoStreak
    /\ UNCHANGED <<enabled, retry_attempts, instant_recovery, downgrade_counters,
                   upgrade_counters, feed, ticks, services, runtime>>

\* apply_transition with the recommendation just returned: a state is entered.
DwellApply ==
    /\ call.op \in {"evaluate_downgrade", "evaluate_upgrade"}
    /\ call.returned # NoRec
    /\ context' = apply_transition(context, call.returned[1], call.returned[2])
    /\ call' = Call("apply_transition", call.active_subflows,
                    call.downgrade_recommendation, call.upgrade_recommendation,
                    call.returned, NoRec)
    /\ streak' = NoStreak
    /\ ticks' = 0
    /\ UNCHANGED <<enabled, retry_attempts, instant_recovery, downgrade_counters,
                   upgrade_counters, feed, services, runtime>>

\* evaluate_downgrade reads no RTT (max_rtt_ms is not used, min_rtt_ms is not
\* passed) and evaluate_upgrade does not read active_subflows: one value of
\* the unread argument stands for all.
DowngradeInputs == {i \in Inputs : i.min_rtt_ms = 50}

UpgradeInputs == {i \in Inputs : i.active_subflows = 2}

NextDwell ==
    \/ DwellSecond
    \/ \E i \in DowngradeInputs : DwellDowngrade(i)
    \/ \E i \in UpgradeInputs : DwellUpgrade(i)
    \/ DwellApply

SpecDwell == Init /\ [][NextDwell]_vars

\* ------------------------------------------------------------------- C35
\* ticks is the time in state, which the context reports up to MaxAge.
C35_Clock ==
    time_in_state(context) = (IF ticks < MaxAge THEN ticks ELSE MaxAge)

C35_NoneInDwell ==
    time_in_state(context) < MIN_STATE_DWELL_TIME =>
        /\ context.condition_name = None
        /\ context.condition_met_at = NoTime

\* A recommendation of a windowed rule is on the table.
C35_WindowedDowngrade ==
    /\ call.op = "evaluate_downgrade"
    /\ call.returned # NoRec
    /\ call.active_subflows > 0

C35_WindowedUpgrade ==
    /\ call.op = "evaluate_upgrade"
    /\ call.returned # NoRec
    /\ call.returned[1] = "RECOVERY"

C35_Earliest ==
    /\ C35_WindowedDowngrade =>
            /\ streak.dir \in {"loss", "bandwidth", "critical"}
            /\ streak.dir = "loss" => ticks >= MIN_STATE_DWELL_TIME + 5
            /\ streak.dir = "bandwidth" => ticks >= MIN_STATE_DWELL_TIME + 10
            /\ streak.dir = "critical" => ticks >= MIN_STATE_DWELL_TIME + 20
    /\ C35_WindowedUpgrade => ticks >= MIN_STATE_DWELL_TIME + 60

\* C35: while time_in_state < 45 s no condition is outstanding, so a windowed
\* transition comes no earlier than 45 s plus its window after the state was
\* entered: 50 s for a loss-triggered downgrade, 55 s for a
\* bandwidth-triggered one, 105 s for an upgrade into RECOVERY.
C35_WindowAfterDwell == C35_Clock /\ C35_NoneInDwell /\ C35_Earliest

\* The upgrade into RECOVERY recommended 105 s after the state was entered.
C35_Witness ==
    /\ C35_WindowedUpgrade
    /\ ticks = MIN_STATE_DWELL_TIME + 60
    /\ context.current_state = "LOW"

\* ------------------------------------------------------------------- C37
C37_Promotion(i) ==
    evaluate_upgrade(context, i.total_bandwidth_bps, i.packet_loss_percent,
                     i.min_rtt_ms, i.active_subflows).ret

\* C37: in a run from MEDIUM whose transitions all come from evaluator
\* recommendations, RECOVERY always has VERY_LOW, LOW or MEDIUM as
\* previous_state, so after 60 s in RECOVERY evaluate_upgrade returns the
\* promotion on every sample.
C37_RecoveryHasTarget ==
    context.current_state = "RECOVERY" =>
        /\ context.previous_state \in {"VERY_LOW", "LOW", "MEDIUM"}
        /\ time_in_state(context) >= RECOVERY_DWELL_TIME =>
                \A i \in Inputs :
                    /\ C37_Promotion(i) # NoRec
                    /\ C37_Promotion(i)[1] = RecoveryTarget(context.previous_state)

\* The promotion out of a RECOVERY that was entered from LOW.
C37_Witness ==
    /\ context.current_state = "RECOVERY"
    /\ context.previous_state = "LOW"
    /\ time_in_state(context) >= RECOVERY_DWELL_TIME
    /\ call.op = "evaluate_upgrade"
    /\ call.returned # NoRec
    /\ call.returned[1] = "MEDIUM"

\* ===========================================================================
\* Part 10. The OBS controller's heartbeat task, together with the connect
\* task, the reconnect task and the shutdown.
\* ===========================================================================

\* What the heartbeat's GetCurrentProgramScene request meets: a scene in
\* answer, no answer within 5 s, a socket that is closed, or an answer whose
\* responseData is not an object.
HeartbeatAnswers == {"scene", "timeout", "connection_closed", "malformed"}

\* Whether _update_current_scene raises. _send_request returns None on
\* TimeoutError and on every other Exception of send and recv; only
\* response.get(...) on a responseData that is no dict raises, outside
\* _send_request's try.
update_current_scene_raises(answer) == answer = "malformed"

\* The except branch of _heartbeat_loop: `await self.disconnect()`, then the
\* reconnect task, then break. disconnect() first cancels heartbeat_task,
\* which is the task running it: if `await self.ws.close()` suspends, the
\* CancelledError is raised there, passes `except Exception` (it is a
\* BaseException) and ends the loop in its outer handler with the rest
\* skipped; if close() returns without suspending the branch runs to its end.
heartbeat_failed(o, suspends) ==
    LET cancelled == [o EXCEPT !.heartbeat_task = None]
    IN  IF suspends
        THEN [cancelled EXCEPT !.ws = "closing"]
        ELSE start_reconnect([cancelled EXCEPT !.ws = None, !.state = "disconnected"])

\* One round of _heartbeat_loop after its sleep; heartbeat records what the
\* request met.
heartbeat_round(o, answer, suspends) ==
    IF update_current_scene_raises(answer)
    THEN [heartbeat_failed(o, suspends) EXCEPT !.heartbeat = answer]
    ELSE [o EXCEPT !.heartbeat = answer]

\* The heartbeat task wakes from `await asyncio.sleep(10)`.
HeartbeatWake(answer, suspends) ==
    /\ obs.heartbeat_task = "running"
    /\ obs.state = "authenticated"
    /\ update_current_scene_raises(answer) => obs.failures < MaxSleeps
    /\ ~update_current_scene_raises(answer) => suspends
    /\ obs' = heartbeat_round(obs, answer, suspends)
    /\ UNCHANGED <<app, response, lifespan, fsm, services>>

NextObsLive ==
    \/ ConnectTaskBegin
    \/ \E outcome \in ConnectOutcomes : ConnectTaskEnd(outcome)
    \/ ReconnectBegin
    \/ ReconnectWake
    \/ \E outcome \in ConnectOutcomes : ReconnectConnectEnd(outcome)
    \/ \E answer \in HeartbeatAnswers, suspends \in BOOLEAN : HeartbeatWake(answer, suspends)
    \/ ShutdownObsController

SpecObsLive == InitObs /\ [][NextObsLive]_vars

\* ------------------------------------------------------------------- C34
\* A heartbeat request has just failed on an authenticated controller.
C34_HeartbeatFails ==
    /\ obs.state = "authenticated"
    /\ obs.heartbeat_task = "running"
    /\ obs'.heartbeat \in {"timeout", "connection_closed", "malformed"}
    /\ obs'.heartbeat # obs.heartbeat

\* C34: a heartbeat request that fails while the controller is AUTHENTICATED
\* leaves it DISCONNECTED with a reconnect loop running (which re-establishes
\* the connection once OBS is reachable).
C34_HeartbeatReconnects ==
    [][C34_HeartbeatFails =>
            /\ obs'.state = "disconnected"
            /\ Pending(obs'.reconnect_task)]_vars

\* What the code does when OBS stops answering or the socket is lost: the
\* loop goes on, the controller stays AUTHENTICATED, no reconnect task.
C34_SilentFailure ==
    [][(C34_HeartbeatFails /\ obs'.heartbeat \in {"timeout", "connection_closed"}) =>
            /\ obs'.state = "authenticated"
            /\ obs'.heartbeat_task = "running"
            /\ obs'.reconnect_task = obs.reconnect_task]_vars

\* ------------------------------------------------------------------- C40
\* C40: at most one reconnect loop exists at any time, the one that
\* reconnect_task names; a failure of connect() or of the heartbeat while it
\* runs starts no second one.
C40_OneReconnectLoop ==
    /\ obs.loops <= 1
    /\ obs.loops = 1 <=> Pending(obs.reconnect_task)

\* A connect() has failed inside the running loop, after an earlier failure
\* had started it: still one loop, asleep for its second delay.
C40_Witness ==
    /\ obs.failures >= 2
    /\ obs.loops = 1
    /\ obs.reconnect_task = "sleep"
    /\ Len(obs.slept) = 2

\* A heartbeat failure started the loop, an earlier loop having finished.
C40_HeartbeatStarted ==
    /\ obs.heartbeat = "malformed"
    /\ obs.failures >= 1
    /\ obs.loops = 1
    /\ obs.reconnect_task = "created"

====
